---- MODULE Spec2Model ----
(***************************************************************************)
(* Drone simulator: the flight engine (drone.py, environment.py,           *)
(* telemetry.py, validators.py) and the per-connection session protocol    *)
(* (server.py).                                                            *)
(*                                                                         *)
(* Numbers.  battery is kept in thousandths of a percent, gyroscope values *)
(* in units of 1/4500 (so that the wind tilt wind/225 and the movement     *)
(* tilt speed*2/45 are integers), wind_speed and dust_level in percent.    *)
(* math.exp is a fixed-point approximation; OverflowError and the float    *)
(* overflow to inf are kept as separate outcomes.                          *)
(***************************************************************************)
EXTENDS Integers, Sequences, FiniteSets, TLC

(***************************************************************************)
(* Bounds of the model                                                     *)
(***************************************************************************)
MaxSteps == 2
MaxConns == 2
MaxCommands == 2
MaxTime == 6
MaxRun == 24
MaxFlight == 4
MaxEndurance == 1002

(***************************************************************************)
(* Scales and program constants                                            *)
(***************************************************************************)
BatteryScale == 1000
BatteryFull == 100 * BatteryScale
GyroOne == 50 * 90
max_x_position == 100000
MAX_WIND_TILT_DEGREES == 40
CRITICAL_TILT_DEGREES == 45
GyroPerDegree == GyroOne \div 90
minimum_drain == BatteryScale \div 10
min_multiplier == 600
max_multiplier == 1800
ExpOverflowAltitude == -23660
ExpInfAltitude == -23654
ProductCap == 100000000
INACTIVITY_TIMEOUT == 5
PING_TIMEOUT == 5
HEARTBEAT_INTERVAL == 5

Abs(n) == IF n < 0 THEN -n ELSE n
Min(a, b) == IF a < b THEN a ELSE b
Max(a, b) == IF a > b THEN a ELSE b

(***************************************************************************)
(* telemetry.py                                                            *)
(***************************************************************************)
initial_telemetry ==
    [x_position |-> 0, y_position |-> 0, battery |-> BatteryFull,
     gyroscope |-> <<0, 0, 0>>, wind_speed |-> 0, dust_level |-> 0,
     sensor_status |-> "GREEN"]

\* _load_telemetry: `data = f.read()` consumes the file, so json.load(f)
\* raises JSONDecodeError on every non-empty file; the handler then saves and
\* returns the default.  An empty or missing file gives the default too.
\* `file` is the stored record, or <<>> when there is none.
LoadTelemetry(file) == [telemetry |-> initial_telemetry, file |-> initial_telemetry]

(***************************************************************************)
(* validators.py                                                           *)
(***************************************************************************)
Cmd(s, a, m) ==
    [is_dict |-> TRUE, keys |-> {"speed", "altitude", "movement"},
     speed_type |-> "int", speed |-> s,
     altitude_type |-> "int", altitude |-> a,
     movement_type |-> "str", movement |-> m]

validate_dict_input(d) == IF ~d.is_dict THEN "Input must be a dictionary" ELSE "True"

validate_required_keys(d) ==
    IF "speed" \notin d.keys THEN "Missing required key: speed"
    ELSE IF "altitude" \notin d.keys THEN "Missing required key: altitude"
    ELSE IF "movement" \notin d.keys THEN "Missing required key: movement"
    ELSE "True"

\* validate_speed with the upper limit off by one
validate_speed_upto6(d) ==
    IF d.speed_type \notin {"int", "bool"} THEN "'speed' must be an integer"
    ELSE IF ~(0 <= d.speed /\ d.speed <= 6) THEN "'speed' must be between 0 and 5"
    ELSE "True"

validate_speed(d) ==
    IF d.speed_type \notin {"int", "bool"} THEN "'speed' must be an integer"
    ELSE IF ~(0 <= d.speed /\ d.speed <= 5) THEN "'speed' must be between 0 and 5"
    ELSE "True"

validate_altitude(d) ==
    IF d.altitude_type \notin {"int", "bool"} THEN "'altitude' must be an integer"
    ELSE "True"

validate_movement(d) ==
    IF d.movement_type # "str" THEN "'movement' must be a string"
    ELSE IF d.movement \notin {"fwd", "rev"} THEN "'movement' must be one of ['fwd', 'rev']"
    ELSE "True"

\* "True" stands for the Python value True, any other string for the error text
validate_drone_input(d) ==
    IF validate_dict_input(d) # "True" THEN validate_dict_input(d)
    ELSE IF validate_required_keys(d) # "True" THEN validate_required_keys(d)
    ELSE IF validate_speed(d) # "True" THEN validate_speed(d)
    ELSE IF validate_altitude(d) # "True" THEN validate_altitude(d)
    ELSE IF validate_movement(d) # "True" THEN validate_movement(d)
    ELSE "True"

(***************************************************************************)
(* math.exp(-decay_rate * y), decay_rate = 0.03, in fixed point            *)
(***************************************************************************)
RECURSIVE ExpDecay(_)
\* exp(-0.03 * y) for y >= 0, in units of 1/10000
ExpDecay(y) ==
    IF y >= 512 THEN 0
    ELSE IF y >= 64 THEN (ExpDecay(y - 64) * 1466) \div 10000
    ELSE IF y >= 8 THEN (ExpDecay(y - 8) * 7866) \div 10000
    ELSE IF y >= 1 THEN (ExpDecay(y - 1) * 9704) \div 10000
    ELSE 10000

MulMilli(e, k) == (e \div 1000) * k + ((e % 1000) * k) \div 1000

RECURSIVE ExpGrow(_)
\* exp(0.03 * n) for n >= 0, in thousandths, saturating at ProductCap
ExpGrow(n) ==
    IF n >= 384 THEN ProductCap
    ELSE IF n >= 64 THEN Min(ProductCap, MulMilli(ExpGrow(n - 64), 6821))
    ELSE IF n >= 8 THEN Min(ProductCap, MulMilli(ExpGrow(n - 8), 1271))
    ELSE IF n >= 1 THEN Min(ProductCap, MulMilli(ExpGrow(n - 1), 1030))
    ELSE 1000

\* min(cap, a * b) without leaving 32 bits
SatMul(a, b, cap) == IF a = 0 \/ b = 0 THEN 0 ELSE IF b > cap \div a THEN cap ELSE a * b

\* altitude_factor = min_multiplier + (max_multiplier - min_multiplier) * exp(-0.03 * y),
\* in thousandths, saturating at ProductCap
altitude_factor(y) ==
    IF y >= 0 THEN min_multiplier + ((max_multiplier - min_multiplier) * ExpDecay(y)) \div 10000
    ELSE Min(ProductCap,
             min_multiplier + SatMul(ExpGrow(-y) \div 10, (max_multiplier - min_multiplier) \div 100, ProductCap))

(***************************************************************************)
(* drone.py: the steps of update_telemetry                                 *)
(***************************************************************************)
\* the position update that moves forward whatever the movement is
_update_position_fwd_only(t, user_input) ==
    [t EXCEPT !.x_position = t.x_position + user_input.speed,
              !.y_position = t.y_position + user_input.altitude]

\* _update_position on the telemetry t
_update_position(t, user_input) ==
    LET speed == user_input.speed
        altitude_change == user_input.altitude
        x == IF user_input.movement = "fwd" THEN t.x_position + speed
             ELSE IF user_input.movement = "rev" THEN t.x_position - speed
             ELSE t.x_position
        y == IF Abs(altitude_change) > 0 THEN t.y_position + altitude_change
             ELSE t.y_position
    IN  [t EXCEPT !.x_position = x, !.y_position = y]

\* math.exp raises OverflowError (not a ValueError) below this altitude
ExpOverflows(t) == t.y_position <= ExpOverflowAltitude

\* _update_battery without the altitude factor
_update_battery_no_factor(t, user_input, rng) ==
    LET base_drain == 500 * user_input.speed + 5 * Abs(user_input.altitude)
        drain_amount == Max(base_drain, minimum_drain)
    IN  [t EXCEPT !.battery = Max(0, t.battery - drain_amount)]

\* _update_battery without the minimum drain
_update_battery_no_minimum(t, user_input, rng) ==
    LET base_drain == 500 * user_input.speed + 5 * Abs(user_input.altitude)
        total_drain == SatMul(base_drain, altitude_factor(t.y_position), ProductCap) \div 1000
    IN  IF t.y_position <= ExpInfAltitude
        THEN [t EXCEPT !.battery = 0]
        ELSE [t EXCEPT !.battery = Max(0, t.battery - total_drain)]

\* drain_amount = max(base_drain * altitude_factor, minimum_drain), for a
\* finite altitude factor
drain_amount(t, user_input) ==
    LET base_drain == 500 * user_input.speed + 5 * Abs(user_input.altitude)
        total_drain == SatMul(base_drain, altitude_factor(t.y_position), ProductCap) \div 1000
    IN  Max(total_drain, minimum_drain)

\* the drain is known exactly: it has not run into the saturation of SatMul
ExactDrain(t, user_input) ==
    /\ t.y_position > ExpInfAltitude
    /\ drain_amount(t, user_input) < ProductCap \div 1000

\* what a double subtraction leaves of the battery where the exact difference
\* is 0 and the rounding errors of the drains so far add up above it (1.4e-12
\* after 1000 drains of 0.1 from 100): more than 0, less than any drain
BatteryResidue == 1

\* _update_battery on a telemetry whose position is already updated.
\* rng.rounding is the direction of the accumulated rounding error, which
\* shows only where the exact difference prev_battery - drain_amount is 0.
_update_battery(t, user_input, rng) ==
    IF t.y_position <= ExpInfAltitude
    THEN \* the factor is inf: drain is inf or nan, max(0, ..) gives 0
         [t EXCEPT !.battery = 0]
    ELSE LET exact == t.battery - drain_amount(t, user_input)
         IN  IF exact = 0 /\ rng.rounding > 0 /\ ExactDrain(t, user_input)
             THEN [t EXCEPT !.battery = BatteryResidue]
             ELSE [t EXCEPT !.battery = Max(0, exact)]

(***************************************************************************)
(* environment.py                                                          *)
(***************************************************************************)
Clamp1(g) == Max(-GyroOne, Min(GyroOne, g))

\* rng.noise: the three uniform(-b, b) draws as fractions of b;
\* rng.heading: <<cos, sin>> of the wind direction
calculate_gyroscope_values(telemetry, user_input, rng) ==
    LET wind_speed == telemetry.wind_speed
        drone_speed == user_input.speed
        altitude == telemetry.y_position
        \* 0.1 * (1 - min(1.0, altitude / 50.0))
        base_instability == IF altitude >= 50 THEN 0 ELSE (GyroOne \div 10) - 9 * altitude
        gyro_x == rng.noise[1] * base_instability
        gyro_y == rng.noise[2] * base_instability
        gyro_z == rng.noise[3] * base_instability
        \* (wind_speed / 100) * MAX_WIND_TILT_DEGREES * DEGREES_TO_GYRO
        wind_effect_gyro == (wind_speed * MAX_WIND_TILT_DEGREES * GyroPerDegree) \div 100
        wind_effect_x == wind_effect_gyro * rng.heading[1]
        wind_effect_y == wind_effect_gyro * rng.heading[2]
        \* (drone_speed / 5.0) * 20.0 degrees
        movement_effect_magnitude == drone_speed * 4
        movement_effect_x == IF user_input.movement = "fwd" THEN movement_effect_magnitude * GyroPerDegree
                             ELSE IF user_input.movement = "rev" THEN -movement_effect_magnitude * GyroPerDegree
                             ELSE 0
        movement_effect_y == 0
        final_gyro_x == Clamp1(gyro_x + wind_effect_x + movement_effect_x)
        final_gyro_y == Clamp1(gyro_y + wind_effect_y + movement_effect_y)
        final_gyro_z == Clamp1(gyro_z)
        movement_tilt_degrees == Abs(movement_effect_x) \div GyroPerDegree
    IN  IF movement_tilt_degrees > CRITICAL_TILT_DEGREES
        THEN <<IF final_gyro_x > 0 THEN GyroOne ELSE -GyroOne,
               IF final_gyro_y > 0 THEN GyroOne ELSE -GyroOne,
               IF final_gyro_z > 0 THEN GyroOne ELSE -GyroOne>>
        ELSE <<final_gyro_x, final_gyro_y, final_gyro_z>>

\* gyro_magnitude > 1.7, squared
ExcessiveTilt(g) ==
    g[1] * g[1] + g[2] * g[2] + g[3] * g[3] > 289 * (GyroOne \div 10) * (GyroOne \div 10)

\* the clamp without its max(0, ..)
ClampPercent_upper_only(v) == Min(100, v)

ClampPercent(v) == Max(0, Min(100, v))

\* the classification that looks at the dust only
SensorStatus_dust_only(wind, dust) ==
    IF dust > 90 THEN "RED"
    ELSE IF dust > 60 THEN "YELLOW"
    ELSE "GREEN"

\* the sensor_status simulate_environmental_conditions derives from the
\* updated wind and dust
SensorStatus(wind, dust) ==
    IF dust > 90 \/ wind > 90 THEN "RED"
    ELSE IF dust > 60 \/ wind > 60 THEN "YELLOW"
    ELSE "GREEN"

\* rng.wind_change, rng.dust_change: the two uniform draws; rng.storm: 0 when
\* random.random() >= 0.3, otherwise dust_severity
simulate_environmental_conditions(telemetry, user_input, rng) ==
    LET wind1 == ClampPercent(telemetry.wind_speed + rng.wind_change)
        dust1 == ClampPercent(telemetry.dust_level + rng.dust_change)
        dust2 == IF rng.storm > 0 THEN Min(100, dust1 + rng.storm) ELSE dust1
        wind2 == IF rng.storm > 0 THEN Min(100, wind1 + rng.storm) ELSE wind1
        gyro == calculate_gyroscope_values(telemetry, user_input, rng)
    IN  IF ExcessiveTilt(gyro)
        THEN [raised |-> TRUE, telemetry |-> telemetry]
        ELSE [raised |-> FALSE,
              telemetry |-> [telemetry EXCEPT !.wind_speed = wind2, !.dust_level = dust2,
                                              !.gyroscope = gyro,
                                              !.sensor_status = SensorStatus(wind2, dust2)]]

(***************************************************************************)
(* drone.py: crash check and update_telemetry                              *)
(***************************************************************************)
BatteryDepletion == <<"Drone has crashed due to battery depletion.">>
NegativeAltitude == <<"Drone has crashed due to negative altitude.">>
ExceededMaxX == <<"Drone has crashed due to exceeding max x position.">>
UnsafeRed == <<"Drone has crashed due to unsafe altitude with RED sensor status. Maximum safe altitude is 3.">>
UnsafeYellow == <<"Drone has crashed due to unsafe altitude with YELLOW sensor status. Maximum safe altitude is 1000.">>
ExcessiveTiltCrash == <<"Drone has crashed due to excessive tilt and loss of stability.">>
NoMessage == <<>>

\* the crash check with the RED altitude limit used for YELLOW too
_check_drone_crash_yellow3(t) ==
    IF t.battery <= 0
    THEN [raised |-> TRUE, message |-> BatteryDepletion, telemetry |-> [t EXCEPT !.battery = 0]]
    ELSE IF t.y_position < 0
    THEN [raised |-> TRUE, message |-> NegativeAltitude, telemetry |-> [t EXCEPT !.y_position = 0]]
    ELSE IF Abs(t.x_position) > max_x_position
    THEN [raised |-> TRUE, message |-> ExceededMaxX, telemetry |-> t]
    ELSE IF t.sensor_status = "RED" /\ t.y_position > 3
    THEN [raised |-> TRUE, message |-> UnsafeRed, telemetry |-> t]
    ELSE IF t.sensor_status = "YELLOW" /\ t.y_position > 3
    THEN [raised |-> TRUE, message |-> UnsafeYellow, telemetry |-> t]
    ELSE [raised |-> FALSE, message |-> NoMessage, telemetry |-> t]

\* the crash check with the RED and YELLOW ceilings and the x range inclusive
_check_drone_crash_inclusive(t) ==
    IF t.battery <= 0
    THEN [raised |-> TRUE, message |-> BatteryDepletion, telemetry |-> [t EXCEPT !.battery = 0]]
    ELSE IF t.y_position < 0
    THEN [raised |-> TRUE, message |-> NegativeAltitude, telemetry |-> [t EXCEPT !.y_position = 0]]
    ELSE IF Abs(t.x_position) >= max_x_position
    THEN [raised |-> TRUE, message |-> ExceededMaxX, telemetry |-> t]
    ELSE IF t.sensor_status = "RED" /\ t.y_position >= 3
    THEN [raised |-> TRUE, message |-> UnsafeRed, telemetry |-> t]
    ELSE IF t.sensor_status = "YELLOW" /\ t.y_position >= 1000
    THEN [raised |-> TRUE, message |-> UnsafeYellow, telemetry |-> t]
    ELSE [raised |-> FALSE, message |-> NoMessage, telemetry |-> t]

\* the crash check with the RED ceiling at 10
_check_drone_crash_red_above_10(t) ==
    IF t.battery <= 0
    THEN [raised |-> TRUE, message |-> BatteryDepletion, telemetry |-> [t EXCEPT !.battery = 0]]
    ELSE IF t.y_position < 0
    THEN [raised |-> TRUE, message |-> NegativeAltitude, telemetry |-> [t EXCEPT !.y_position = 0]]
    ELSE IF Abs(t.x_position) > max_x_position
    THEN [raised |-> TRUE, message |-> ExceededMaxX, telemetry |-> t]
    ELSE IF t.sensor_status = "RED" /\ t.y_position > 10
    THEN [raised |-> TRUE, message |-> UnsafeRed, telemetry |-> t]
    ELSE IF t.sensor_status = "YELLOW" /\ t.y_position > 1000
    THEN [raised |-> TRUE, message |-> UnsafeYellow, telemetry |-> t]
    ELSE [raised |-> FALSE, message |-> NoMessage, telemetry |-> t]

\* the crash check that leaves a negative altitude in the telemetry
_check_drone_crash_keeps_altitude(t) ==
    IF t.battery <= 0
    THEN [raised |-> TRUE, message |-> BatteryDepletion, telemetry |-> [t EXCEPT !.battery = 0]]
    ELSE IF t.y_position < 0
    THEN [raised |-> TRUE, message |-> NegativeAltitude, telemetry |-> t]
    ELSE IF Abs(t.x_position) > max_x_position
    THEN [raised |-> TRUE, message |-> ExceededMaxX, telemetry |-> t]
    ELSE IF t.sensor_status = "RED" /\ t.y_position > 3
    THEN [raised |-> TRUE, message |-> UnsafeRed, telemetry |-> t]
    ELSE IF t.sensor_status = "YELLOW" /\ t.y_position > 1000
    THEN [raised |-> TRUE, message |-> UnsafeYellow, telemetry |-> t]
    ELSE [raised |-> FALSE, message |-> NoMessage, telemetry |-> t]

\* _check_drone_crash on the telemetry t: whether it raised, with which
\* message, and the telemetry it left
_check_drone_crash(t) ==
    IF t.battery <= 0
    THEN [raised |-> TRUE, message |-> BatteryDepletion, telemetry |-> [t EXCEPT !.battery = 0]]
    ELSE IF t.y_position < 0
    THEN [raised |-> TRUE, message |-> NegativeAltitude, telemetry |-> [t EXCEPT !.y_position = 0]]
    ELSE IF Abs(t.x_position) > max_x_position
    THEN [raised |-> TRUE, message |-> ExceededMaxX, telemetry |-> t]
    ELSE IF t.sensor_status = "RED" /\ t.y_position > 3
    THEN [raised |-> TRUE, message |-> UnsafeRed, telemetry |-> t]
    ELSE IF t.sensor_status = "YELLOW" /\ t.y_position > 1000
    THEN [raised |-> TRUE, message |-> UnsafeYellow, telemetry |-> t]
    ELSE [raised |-> FALSE, message |-> NoMessage, telemetry |-> t]

\* DroneSimulator.__init__ on a session's own telemetry file
NewDrone ==
    [telemetry |-> LoadTelemetry(<<>>).telemetry, file |-> LoadTelemetry(<<>>).file,
     iteration_count |-> 0, total_distance |-> 0,
     crashed |-> FALSE, crash_reason |-> NoMessage]

\* The call's effect on the engine d and how it ended:
\*   "success"  returned self.telemetry
\*   "crashed"  ValueError raised inside the try block (crash recorded)
\*   "rejected" ValueError raised because the drone had already crashed
\*   "invalid"  ValueError raised by the validation
\*   "overflow" OverflowError raised by math.exp in _update_battery
\* checked is the telemetry as it stood when the crash check ran or the
\* exception was raised (before the check's clamping).
RejectedCall(d) ==
    [drone |-> d, outcome |-> "rejected",
     error |-> <<"Drone has crashed: ">> \o d.crash_reason \o <<". Cannot accept new commands.">>,
     checked |-> d.telemetry]

InvalidCall(d, validation_result) ==
    [drone |-> d, outcome |-> "invalid",
     error |-> <<"Invalid input data: ", validation_result>>,
     checked |-> d.telemetry]

\* iteration_count counts a step with speed != 0 and a non-zero resulting y_position
counts_flight_iteration(user_input, telemetry) ==
    user_input.speed # 0 /\ telemetry.y_position # 0

\* The try block and its `except ValueError`, one operator per statement; each
\* takes what the statements before it left in self.telemetry.
\* After _check_drone_crash (chk) on the telemetry t3 of the environment update:
AfterCrashCheck(d, user_input, t3, chk) ==
    IF chk.raised
    THEN [drone |-> [d EXCEPT !.telemetry = chk.telemetry, !.file = chk.telemetry,
                              !.crashed = TRUE, !.crash_reason = chk.message],
          outcome |-> "crashed", error |-> chk.message, checked |-> t3]
    ELSE [drone |-> [d EXCEPT !.telemetry = t3, !.file = t3,
                              !.total_distance = @ + Abs(t3.x_position - d.telemetry.x_position),
                              !.iteration_count =
                                  IF counts_flight_iteration(user_input, t3) THEN @ + 1 ELSE @],
          outcome |-> "success", error |-> NoMessage, checked |-> t3]

\* the crash check run with the sensor_status the step started with
AfterEnvironment_previous_status(d, user_input, t2, env) ==
    IF env.raised
    THEN [drone |-> [d EXCEPT !.telemetry = t2, !.file = t2, !.crashed = TRUE,
                              !.crash_reason = ExcessiveTiltCrash],
          outcome |-> "crashed", error |-> ExcessiveTiltCrash, checked |-> t2]
    ELSE AfterCrashCheck(d, user_input, env.telemetry,
                         _check_drone_crash([env.telemetry EXCEPT
                                                !.sensor_status = t2.sensor_status]))

\* After _update_environmental_conditions (env) on the telemetry t2:
AfterEnvironment(d, user_input, t2, env) ==
    IF env.raised
    THEN [drone |-> [d EXCEPT !.telemetry = t2, !.file = t2, !.crashed = TRUE,
                              !.crash_reason = ExcessiveTiltCrash],
          outcome |-> "crashed", error |-> ExcessiveTiltCrash, checked |-> t2]
    ELSE AfterCrashCheck(d, user_input, env.telemetry, _check_drone_crash(env.telemetry))

\* After _update_position left t1:
AfterPosition(d, user_input, rng, t1) ==
    IF ExpOverflows(t1)
    THEN [drone |-> [d EXCEPT !.telemetry = t1], outcome |-> "overflow",
          error |-> <<"math range error">>, checked |-> t1]
    ELSE AfterEnvironment(d, user_input, _update_battery(t1, user_input, rng),
                          simulate_environmental_conditions(_update_battery(t1, user_input, rng),
                                                            user_input, rng))

TryBlock(d, user_input, rng) ==
    AfterPosition(d, user_input, rng, _update_position(d.telemetry, user_input))

AfterValidation(d, user_input, rng, validation_result) ==
    IF validation_result # "True" THEN InvalidCall(d, validation_result)
    ELSE TryBlock(d, user_input, rng)

\* update_telemetry without the already-crashed guard
update_telemetry_unguarded(d, user_input, rng) ==
    AfterValidation(d, user_input, rng, validate_drone_input(user_input))

update_telemetry(d, user_input, rng) ==
    IF d.crashed THEN RejectedCall(d)
    ELSE AfterValidation(d, user_input, rng, validate_drone_input(user_input))

get_metrics(d) ==
    IF d.crashed
    THEN [iterations |-> d.iteration_count, total_distance |-> d.total_distance,
          crashed |-> TRUE, crash_reason |-> d.crash_reason]
    ELSE [iterations |-> d.iteration_count, total_distance |-> d.total_distance]

reset(d) ==
    [telemetry |-> initial_telemetry, file |-> initial_telemetry,
     iteration_count |-> 0, total_distance |-> 0,
     crashed |-> FALSE, crash_reason |-> NoMessage]

(***************************************************************************)
(* Inputs                                                                  *)
(***************************************************************************)
Speeds == {0, 5}
Altitudes == {-30000, -5000, -150, -5, 0, 4, 20000}
Movements == {"fwd", "rev"}
ValidCommands == {Cmd(s, a, m) : s \in Speeds, a \in Altitudes, m \in Movements}
InvalidCommands ==
    {[Cmd(6, 0, "fwd") EXCEPT !.speed = 6],
     [Cmd(5, 4, "fwd") EXCEPT !.keys = {"speed", "altitude"}],
     [Cmd(5, 4, "fwd") EXCEPT !.altitude_type = "float"],
     [Cmd(5, 4, "up") EXCEPT !.movement = "up"]}
Commands == ValidCommands \cup InvalidCommands

WindChanges == {-15, 15}
DustChanges == {-10}
Storms == {0, 70}
NoiseDraws == {<<1, 1, 1>>, <<-1, 1, 0>>}
Headings == {<<0, 1>>}
\* the rounding of the battery subtraction: 0 down to the exact value, 1 up
Roundings == {0, 1}
\* what a call does not compute from its arguments: the random draws of the
\* environment, and the rounding of the double arithmetic, which the fixed
\* point cannot compute
Rng == [wind_change : WindChanges, dust_change : DustChanges, storm : Storms,
        noise : NoiseDraws, heading : Headings, rounding : Roundings]
ExactRng == {r \in Rng : r.rounding = 0}
NoRng == CHOOSE r \in ExactRng : TRUE

\* the rounding shows in the battery the command leaves on the engine d:
\* the exact difference is 0
RoundingMatters(d, user_input) ==
    LET t1 == _update_position(d.telemetry, user_input)
    IN  /\ ExactDrain(t1, user_input)
        /\ t1.battery = drain_amount(t1, user_input)

\* the random draws a call consumes: none when it is rejected before the try
\* block; the roundings are told apart only where they differ
DrawsFor(d, user_input) ==
    IF d.crashed \/ validate_drone_input(user_input) # "True" THEN {NoRng}
    ELSE IF RoundingMatters(d, user_input) THEN Rng
    ELSE ExactRng

\* commands tried on an engine that has already crashed
ProbeCommands == {Cmd(5, 4, "fwd"), [Cmd(6, 0, "fwd") EXCEPT !.speed = 6]}

(***************************************************************************)
(* server.py: DroneSimulatorServer                                         *)
(*                                                                         *)
(* connections .. heartbeat_tasks are the five dictionaries of the server  *)
(* (connections and heartbeat_tasks by their key sets: the values are the  *)
(* socket ws[id] and the task hb[id]).  handler[id] is the position and    *)
(* the locals of handle_connection for connection id, hb[id] the position  *)
(* of its connection_heartbeat task and hb_since[id] the time at which it  *)
(* began to wait for the pong or to sleep (0 otherwise); tasks interleave  *)
(* at their awaits.                                                        *)
(***************************************************************************)
VARIABLES connections, drones, metrics, last_activity, heartbeat_tasks,
          ws, handler, hb, hb_since, now
\* a DroneSimulator driven directly (main.py): the engine, how its last call
\* ended, and the number of accepted calls
VARIABLES drone, result, steps

evars == <<drone, result, steps>>

svars == <<connections, drones, metrics, last_activity, heartbeat_tasks, ws, handler, hb,
           hb_since, now>>
vars == <<connections, drones, metrics, last_activity, heartbeat_tasks, ws, handler, hb,
          hb_since, now, drone, result, steps>>

ConnIds == 1 .. MaxConns
\* the clock moves in steps just beyond the two timeouts
TickSteps == {INACTIVITY_TIMEOUT + 1}

Remove(f, k) == [j \in DOMAIN f \ {k} |-> f[j]]
Put(f, k, v) == [j \in DOMAIN f \cup {k} |-> IF j = k THEN v ELSE f[j]]
Get(r, field, default) == IF field \in DOMAIN r THEN r[field] ELSE default

\* the f-string of handle_drone_command, as the sequence of its parts
EncodeTelemetry(t) ==
    <<"X-", t.x_position, "-Y-", t.y_position, "-BAT-", t.battery,
      "-GYR-", t.gyroscope, "-WIND-", t.wind_speed, "-DUST-", t.dust_level,
      "-SENS-", t.sensor_status>>

WelcomeMsg(id) ==
    [status |-> "connected", connection_id |-> id,
     message |-> <<"Welcome to the Drone Simulator! Send commands to control your drone.">>]
InvalidJsonMsg == [status |-> "error", message |-> <<"Invalid JSON format">>]
InactivityMsg == [status |-> "error", message |-> <<"Connection closed due to inactivity">>]
NoData == [json_ok |-> FALSE, data |-> Cmd(0, 0, "fwd")]
NoResponse == [status |-> "none"]

\* register: the dictionaries after a new connection id is registered at time t
register(reg, id, t) ==
    [reg EXCEPT !.connections = @ \cup {id},
                !.drones = Put(@, id, NewDrone),
                !.metrics = Put(@, id, [iterations |-> 0, total_distance |-> 0,
                                        last_position |-> 0, commands_sent |-> 0]),
                !.last_activity = Put(@, id, t)]

\* unregister that empties last_activity
unregister_clears_activity(reg, id) ==
    [connections |-> reg.connections \ {id},
     drones |-> Remove(reg.drones, id),
     metrics |-> Remove(reg.metrics, id),
     last_activity |-> <<>>,
     heartbeat_tasks |-> reg.heartbeat_tasks \ {id},
     hb |-> IF id \in reg.heartbeat_tasks /\ reg.hb[id] # "done"
            THEN [reg.hb EXCEPT ![id] = "cancelled"] ELSE reg.hb]

\* unregister that removes the heartbeat task without cancelling it
unregister_no_cancel(reg, id) ==
    [connections |-> reg.connections \ {id},
     drones |-> Remove(reg.drones, id),
     metrics |-> Remove(reg.metrics, id),
     last_activity |-> Remove(reg.last_activity, id),
     heartbeat_tasks |-> reg.heartbeat_tasks \ {id},
     hb |-> reg.hb]

\* unregister that leaves the last_activity entry behind
unregister_keeps_activity(reg, id) ==
    [connections |-> reg.connections \ {id},
     drones |-> Remove(reg.drones, id),
     metrics |-> Remove(reg.metrics, id),
     last_activity |-> reg.last_activity,
     heartbeat_tasks |-> reg.heartbeat_tasks \ {id},
     hb |-> IF id \in reg.heartbeat_tasks /\ reg.hb[id] # "done"
            THEN [reg.hb EXCEPT ![id] = "cancelled"] ELSE reg.hb]

\* unregister that leaves the metrics entry behind
unregister_keeps_metrics(reg, id) ==
    [connections |-> reg.connections \ {id},
     drones |-> Remove(reg.drones, id),
     metrics |-> reg.metrics,
     last_activity |-> Remove(reg.last_activity, id),
     heartbeat_tasks |-> reg.heartbeat_tasks \ {id},
     hb |-> IF id \in reg.heartbeat_tasks /\ reg.hb[id] # "done"
            THEN [reg.hb EXCEPT ![id] = "cancelled"] ELSE reg.hb]

\* unregister: every removal is guarded by its own membership test; the
\* heartbeat task is cancelled unless it is done
unregister(reg, id) ==
    [connections |-> reg.connections \ {id},
     drones |-> Remove(reg.drones, id),
     metrics |-> Remove(reg.metrics, id),
     last_activity |-> Remove(reg.last_activity, id),
     heartbeat_tasks |-> reg.heartbeat_tasks \ {id},
     hb |-> IF id \in reg.heartbeat_tasks /\ reg.hb[id] # "done"
            THEN [reg.hb EXCEPT ![id] = "cancelled"] ELSE reg.hb]

\* the counting rule with `or` for `and`
counts_iteration_either(data) == data.speed # 0 \/ data.altitude # 0

\* the server's rule for counting a flight iteration
counts_iteration(data) == data.speed # 0 /\ data.altitude # 0

\* CommandResult that counts the crashing step as an iteration in its report
CommandResult_counts_crash(reg, id, data, t, r) ==
    LET m1 == [reg.metrics[id] EXCEPT !.commands_sent = @ + 1]
        la == Put(reg.last_activity, id, t)
    IN  IF r.outcome = "success"
        THEN LET distance_traveled ==
                     Abs(r.drone.telemetry.x_position - reg.drones[id].telemetry.x_position)
                 m2 == IF counts_iteration(data)
                       THEN [m1 EXCEPT !.iterations = @ + 1,
                                       !.total_distance = @ + distance_traveled,
                                       !.last_position = r.drone.telemetry.x_position]
                       ELSE [m1 EXCEPT !.last_position = r.drone.telemetry.x_position]
             IN  [reg |-> [reg EXCEPT !.drones[id] = r.drone, !.metrics[id] = m2,
                                      !.last_activity = la],
                  raised |-> FALSE,
                  response |-> [status |-> "success",
                                telemetry |-> EncodeTelemetry(r.drone.telemetry),
                                metrics |-> [iterations |-> m2.iterations,
                                             total_distance |-> m2.total_distance]]]
        ELSE IF r.outcome = "overflow"
        THEN \* OverflowError is no ValueError: it leaves handle_drone_command
             [reg |-> [reg EXCEPT !.drones[id] = r.drone, !.metrics[id] = m1, !.last_activity = la],
              raised |-> TRUE, response |-> NoResponse]
        ELSE \* except ValueError: a crash, a rejected call and an invalid input alike
             [reg |-> [reg EXCEPT !.drones[id] = r.drone, !.metrics[id] = m1, !.last_activity = la],
              raised |-> FALSE,
              response |-> [status |-> "crashed", message |-> r.error,
                            metrics |-> [iterations |-> m1.iterations + 1,
                                         total_distance |-> m1.total_distance],
                            final_telemetry |-> EncodeTelemetry(r.drone.telemetry),
                            connection_terminated |-> TRUE]]

\* handle_drone_command after drone.update_telemetry(data) ended as r, at time t
CommandResult(reg, id, data, t, r) ==
    LET m1 == [reg.metrics[id] EXCEPT !.commands_sent = @ + 1]
        la == Put(reg.last_activity, id, t)
    IN  IF r.outcome = "success"
        THEN LET distance_traveled ==
                     Abs(r.drone.telemetry.x_position - reg.drones[id].telemetry.x_position)
                 m2 == IF counts_iteration(data)
                       THEN [m1 EXCEPT !.iterations = @ + 1,
                                       !.total_distance = @ + distance_traveled,
                                       !.last_position = r.drone.telemetry.x_position]
                       ELSE [m1 EXCEPT !.last_position = r.drone.telemetry.x_position]
             IN  [reg |-> [reg EXCEPT !.drones[id] = r.drone, !.metrics[id] = m2,
                                      !.last_activity = la],
                  raised |-> FALSE,
                  response |-> [status |-> "success",
                                telemetry |-> EncodeTelemetry(r.drone.telemetry),
                                metrics |-> [iterations |-> m2.iterations,
                                             total_distance |-> m2.total_distance]]]
        ELSE IF r.outcome = "overflow"
        THEN \* OverflowError is no ValueError: it leaves handle_drone_command
             [reg |-> [reg EXCEPT !.drones[id] = r.drone, !.metrics[id] = m1, !.last_activity = la],
              raised |-> TRUE, response |-> NoResponse]
        ELSE \* except ValueError: a crash, a rejected call and an invalid input alike
             [reg |-> [reg EXCEPT !.drones[id] = r.drone, !.metrics[id] = m1, !.last_activity = la],
              raised |-> FALSE,
              response |-> [status |-> "crashed", message |-> r.error,
                            metrics |-> [iterations |-> m1.iterations,
                                         total_distance |-> m1.total_distance],
                            final_telemetry |-> EncodeTelemetry(r.drone.telemetry),
                            connection_terminated |-> TRUE]]

\* handle_drone_command with the activity stamp taken before the existence test
handle_drone_command_stamps_first(reg, id, data, rng, t) ==
    IF id \notin DOMAIN reg.drones \/ id \notin DOMAIN reg.metrics
    THEN [reg |-> [reg EXCEPT !.last_activity = Put(reg.last_activity, id, t)],
          raised |-> FALSE,
          response |-> [status |-> "error", message |-> <<"Connection no longer exists">>]]
    ELSE CommandResult(reg, id, data, t, update_telemetry(reg.drones[id], data, rng))

\* handle_drone_command: the dictionaries after the call and what it returned;
\* raised is TRUE when an exception other than ValueError escaped
handle_drone_command(reg, id, data, rng, t) ==
    IF id \notin DOMAIN reg.drones \/ id \notin DOMAIN reg.metrics
    THEN [reg |-> reg, raised |-> FALSE,
          response |-> [status |-> "error", message |-> <<"Connection no longer exists">>]]
    ELSE CommandResult(reg, id, data, t, update_telemetry(reg.drones[id], data, rng))

(***************************************************************************)
(* Messages a client sends, and the random draws of the sessions           *)
(***************************************************************************)
ServerCommands ==
    {Cmd(5, 4, "fwd"), Cmd(5, 0, "rev"), Cmd(0, -5, "fwd"), Cmd(0, -30000, "fwd"),
     [Cmd(6, 0, "fwd") EXCEPT !.speed = 6]}
ClientMessages == {[json_ok |-> TRUE, data |-> c] : c \in ServerCommands} \cup {NoData}
ServerRng == {r \in Rng : r.noise = <<1, 1, 1>> /\ (r.storm > 0 <=> r.wind_change > 0)}

Reg ==
    [connections |-> connections, drones |-> drones, metrics |-> metrics,
     last_activity |-> last_activity, heartbeat_tasks |-> heartbeat_tasks, hb |-> hb]

SetReg(reg) ==
    /\ connections' = reg.connections
    /\ drones' = reg.drones
    /\ metrics' = reg.metrics
    /\ last_activity' = reg.last_activity
    /\ heartbeat_tasks' = reg.heartbeat_tasks
    /\ hb' = reg.hb

Send(id, msg) == ws' = [ws EXCEPT ![id].sent = Append(@, msg)]
Close(id, reason) ==
    ws' = IF ws[id].state = "open"
          THEN [ws EXCEPT ![id].state = "closed", ![id].close_reason = reason] ELSE ws

NoResult == [op |-> "init", outcome |-> "none", error |-> NoMessage,
             input |-> Cmd(0, 0, "fwd"), checked |-> initial_telemetry]

DroneInit ==
    /\ drone = NewDrone
    /\ result = NoResult
    /\ steps = 0

RECURSIVE Delivered(_)
\* the messages the clients of the connections S have been answered so far
Delivered(S) ==
    IF S = {} THEN 0
    ELSE LET id == CHOOSE j \in S : TRUE
         IN  Max(0, Len(ws[id].sent) - 1) + Delivered(S \ {id})

Init ==
    /\ connections = {}
    /\ drones = <<>>
    /\ metrics = <<>>
    /\ last_activity = <<>>
    /\ heartbeat_tasks = {}
    /\ ws = [id \in ConnIds |-> [state |-> "none", close_reason |-> NoMessage, sent |-> <<>>]]
    /\ handler = [id \in ConnIds |-> [pc |-> "idle", data |-> NoData, response |-> NoResponse]]
    /\ hb = [id \in ConnIds |-> "none"]
    /\ hb_since = [id \in ConnIds |-> 0]
    /\ now = 0
    /\ DroneInit

(***************************************************************************)
(* handle_connection, from one await to the next                           *)
(***************************************************************************)
\* a client connects: register, then `await websocket.send(welcome_msg)`
Connect(id) ==
    /\ handler[id].pc = "idle"
    /\ \A j \in ConnIds : j < id => handler[j].pc # "idle"
    /\ SetReg(register(Reg, id, now))
    /\ ws' = [ws EXCEPT ![id] = [state |-> "open", close_reason |-> NoMessage,
                                 sent |-> <<WelcomeMsg(id)>>]]
    /\ handler' = [handler EXCEPT ![id].pc = "welcome"]
    /\ UNCHANGED now
    /\ UNCHANGED hb_since
    /\ UNCHANGED evars

\* the finally block: `await self.unregister(connection_id)`
Finally(id) ==
    /\ SetReg(unregister(Reg, id))
    /\ handler' = [handler EXCEPT ![id].pc = "done"]

\* the welcome is out: create the heartbeat task and wait for a message
WelcomeSent(id) ==
    /\ handler[id].pc = "welcome"
    /\ ws[id].state = "open"
    /\ heartbeat_tasks' = heartbeat_tasks \cup {id}
    /\ hb' = [hb EXCEPT ![id] = "start"]
    /\ handler' = [handler EXCEPT ![id].pc = "recv"]
    /\ UNCHANGED <<connections, drones, metrics, last_activity, ws, now>>
    /\ UNCHANGED hb_since
    /\ UNCHANGED evars

\* a send, a receive or a close meets a closed socket (ConnectionClosed), or
\* the message loop ends because the socket is closed
ConnectionLost(id) ==
    /\ handler[id].pc \in {"welcome", "recv", "send"}
    /\ ws[id].state = "closed"
    /\ Finally(id)
    /\ UNCHANGED <<ws, now>>
    /\ UNCHANGED hb_since
    /\ UNCHANGED evars

\* the random draws handle_drone_command consumes for msg on connection id
SessionDraws(id, msg) ==
    IF msg.json_ok /\ id \in DOMAIN drones
    THEN DrawsFor(drones[id], msg.data) \cap (ServerRng \cup {NoRng})
    ELSE {NoRng}

\* the response step that sends the response twice
Respond_sends_twice(id, msg, r) ==
    IF r.raised \/ id \notin r.reg.connections
    THEN /\ SetReg(unregister(r.reg, id))
         /\ handler' = [handler EXCEPT ![id] = [pc |-> "done", data |-> msg,
                                                response |-> r.response]]
         /\ UNCHANGED ws
    ELSE /\ SetReg(r.reg)
         /\ ws' = [ws EXCEPT ![id].sent = Append(Append(@, r.response), r.response)]
         /\ handler' = [handler EXCEPT ![id] = [pc |-> "send", data |-> msg,
                                                response |-> r.response]]

\* handle_drone_command ended as r: leave through the finally block, or send
\* the response
Respond(id, msg, r) ==
    IF r.raised \/ id \notin r.reg.connections
    THEN \* except Exception, or break: straight to the finally block
         /\ SetReg(unregister(r.reg, id))
         /\ handler' = [handler EXCEPT ![id] = [pc |-> "done", data |-> msg,
                                                response |-> r.response]]
         /\ UNCHANGED ws
    ELSE /\ SetReg(r.reg)
         /\ Send(id, r.response)
         /\ handler' = [handler EXCEPT ![id] = [pc |-> "send", data |-> msg,
                                                response |-> r.response]]

\* the message loop with the activity stamp taken before json.loads
HandleMessage_json_error_is_activity(id, msg, rng) ==
    /\ handler[id].pc = "recv"
    /\ ws[id].state = "open"
    /\ Delivered(ConnIds) < MaxCommands
    /\ IF ~msg.json_ok
       THEN \* json.JSONDecodeError
            /\ Send(id, InvalidJsonMsg)
            /\ handler' = [handler EXCEPT ![id] = [pc |-> "send", data |-> msg,
                                                   response |-> InvalidJsonMsg]]
            /\ last_activity' = Put(last_activity, id, now)
            /\ UNCHANGED <<connections, drones, metrics, heartbeat_tasks, hb>>
       ELSE IF id \notin DOMAIN last_activity
       THEN \* "no longer registered": break
            /\ Finally(id)
            /\ UNCHANGED ws
       ELSE Respond(id, msg, handle_drone_command([Reg EXCEPT !.last_activity[id] = now],
                                                  id, msg.data, rng, now))
    /\ UNCHANGED now
    /\ UNCHANGED hb_since
    /\ UNCHANGED evars

\* one message of `async for message in websocket`, up to the await of the
\* send, with the random draws rng
HandleMessage(id, msg, rng) ==
    /\ handler[id].pc = "recv"
    /\ ws[id].state = "open"
    /\ Delivered(ConnIds) < MaxCommands
    /\ IF ~msg.json_ok
       THEN \* json.JSONDecodeError
            /\ Send(id, InvalidJsonMsg)
            /\ handler' = [handler EXCEPT ![id] = [pc |-> "send", data |-> msg,
                                                   response |-> InvalidJsonMsg]]
            /\ UNCHANGED <<connections, drones, metrics, last_activity, heartbeat_tasks, hb>>
       ELSE IF id \notin DOMAIN last_activity
       THEN \* "no longer registered": break
            /\ Finally(id)
            /\ UNCHANGED ws
       ELSE Respond(id, msg, handle_drone_command([Reg EXCEPT !.last_activity[id] = now],
                                                  id, msg.data, rng, now))
    /\ UNCHANGED now
    /\ UNCHANGED hb_since
    /\ UNCHANGED evars

Receive(id, msg) == \E rng \in SessionDraws(id, msg) : HandleMessage(id, msg, rng)

\* the send has completed on an open socket
Sent(id) ==
    /\ handler[id].pc = "send"
    /\ ws[id].state = "open"
    /\ IF Get(handler[id].response, "status", "") = "crashed"
          /\ Get(handler[id].response, "connection_terminated", FALSE)
       THEN /\ Close(id, <<"Drone crashed: ">> \o handler[id].response.message)
            /\ handler' = [handler EXCEPT ![id].pc = "close"]
       ELSE /\ handler' = [handler EXCEPT ![id].pc = "recv"]
            /\ UNCHANGED ws
    /\ UNCHANGED <<connections, drones, metrics, last_activity, heartbeat_tasks, hb, now>>
    /\ UNCHANGED hb_since
    /\ UNCHANGED evars

\* `await websocket.close(..)` has returned: break, then the finally block
Closed(id) ==
    /\ handler[id].pc = "close"
    /\ Finally(id)
    /\ UNCHANGED <<ws, now>>
    /\ UNCHANGED hb_since
    /\ UNCHANGED evars

(***************************************************************************)
(* connection_heartbeat, from one await to the next                        *)
(***************************************************************************)
\* top of the loop, at the start of the task or when `asyncio.sleep(5)` is
\* over: membership test, then `await websocket.ping()`
HbPing(id) ==
    /\ \/ hb[id] = "start"
       \/ hb[id] = "sleep" /\ now - hb_since[id] >= HEARTBEAT_INTERVAL
    /\ IF id \notin connections \/ ws[id].state # "open"
       THEN hb' = [hb EXCEPT ![id] = "done"] /\ hb_since' = [hb_since EXCEPT ![id] = 0]
       ELSE hb' = [hb EXCEPT ![id] = "pong"] /\ hb_since' = [hb_since EXCEPT ![id] = now]
    /\ UNCHANGED <<connections, drones, metrics, last_activity, heartbeat_tasks, ws, handler, now>>
    /\ UNCHANGED evars

\* the pong handling without the inactivity check
HbPong_no_inactivity_check(id) ==
    /\ hb[id] = "pong"
    /\ ws[id].state = "open"
    /\ now - hb_since[id] < PING_TIMEOUT
    /\ hb' = [hb EXCEPT ![id] = "sleep"]
    /\ hb_since' = [hb_since EXCEPT ![id] = now]
    /\ UNCHANGED <<connections, drones, metrics, last_activity, heartbeat_tasks, ws, handler, now>>
    /\ UNCHANGED evars

\* the pong handling that counts the pong as activity of the session
HbPong_stamps_activity(id) ==
    /\ hb[id] = "pong"
    /\ ws[id].state = "open"
    /\ now - hb_since[id] < PING_TIMEOUT
    /\ IF id \in DOMAIN last_activity /\ now - last_activity[id] > INACTIVITY_TIMEOUT
       THEN /\ Send(id, InactivityMsg)
            /\ hb' = [hb EXCEPT ![id] = "notice"]
            /\ hb_since' = [hb_since EXCEPT ![id] = 0]
       ELSE /\ hb' = [hb EXCEPT ![id] = "sleep"]
            /\ hb_since' = [hb_since EXCEPT ![id] = now]
            /\ UNCHANGED ws
    /\ last_activity' = Put(last_activity, id, now)
    /\ UNCHANGED <<connections, drones, metrics, heartbeat_tasks, handler, now>>
    /\ UNCHANGED evars

\* the pong arrived within the timeout: the inactivity check, then the notice
\* or the sleep
HbPong(id) ==
    /\ hb[id] = "pong"
    /\ ws[id].state = "open"
    /\ now - hb_since[id] < PING_TIMEOUT
    /\ IF id \in DOMAIN last_activity /\ now - last_activity[id] > INACTIVITY_TIMEOUT
       THEN /\ Send(id, InactivityMsg)
            /\ hb' = [hb EXCEPT ![id] = "notice"]
            /\ hb_since' = [hb_since EXCEPT ![id] = 0]
       ELSE /\ hb' = [hb EXCEPT ![id] = "sleep"]
            /\ hb_since' = [hb_since EXCEPT ![id] = now]
            /\ UNCHANGED ws
    /\ UNCHANGED <<connections, drones, metrics, last_activity, heartbeat_tasks, handler, now>>
    /\ UNCHANGED evars

\* the timeout handling without the close
HbPingTimeout_no_close(id) ==
    /\ hb[id] = "pong"
    /\ now - hb_since[id] >= PING_TIMEOUT \/ ws[id].state # "open"
    /\ hb' = [hb EXCEPT ![id] = "done"]
    /\ hb_since' = [hb_since EXCEPT ![id] = 0]
    /\ UNCHANGED <<connections, drones, metrics, last_activity, heartbeat_tasks, ws, handler, now>>
    /\ UNCHANGED evars

\* asyncio.TimeoutError or ConnectionClosed while waiting for the pong
HbPingTimeout(id) ==
    /\ hb[id] = "pong"
    /\ now - hb_since[id] >= PING_TIMEOUT \/ ws[id].state # "open"
    /\ Close(id, <<"Ping timeout">>)
    /\ hb' = [hb EXCEPT ![id] = "done"]
    /\ hb_since' = [hb_since EXCEPT ![id] = 0]
    /\ UNCHANGED <<connections, drones, metrics, last_activity, heartbeat_tasks, handler, now>>
    /\ UNCHANGED evars

\* the notice is out: close with the inactivity reason (a failure is swallowed)
HbCloseInactive(id) ==
    /\ hb[id] = "notice"
    /\ Close(id, <<"Inactivity timeout">>)
    /\ hb' = [hb EXCEPT ![id] = "done"]
    /\ UNCHANGED <<connections, drones, metrics, last_activity, heartbeat_tasks, handler, now>>
    /\ UNCHANGED hb_since
    /\ UNCHANGED evars

(***************************************************************************)
(* The environment: the client and the clock                               *)
(***************************************************************************)
ClientDisconnect(id) ==
    /\ ws[id].state = "open"
    /\ Close(id, <<"client">>)
    /\ UNCHANGED <<connections, drones, metrics, last_activity, heartbeat_tasks, handler, hb, now>>
    /\ UNCHANGED hb_since
    /\ UNCHANGED evars

Tick ==
    /\ connections # {}
    /\ \E dt \in TickSteps : now + dt <= MaxTime /\ now' = now + dt
    /\ UNCHANGED <<connections, drones, metrics, last_activity, heartbeat_tasks, ws, handler, hb>>
    /\ UNCHANGED hb_since
    /\ UNCHANGED evars

Next ==
    \/ \E id \in ConnIds : Connect(id)
    \/ \E id \in ConnIds : WelcomeSent(id)
    \/ \E id \in ConnIds : ConnectionLost(id)
    \/ \E id \in ConnIds, msg \in ClientMessages : Receive(id, msg)
    \/ \E id \in ConnIds : Sent(id)
    \/ \E id \in ConnIds : Closed(id)
    \/ \E id \in ConnIds : HbPing(id)
    \/ \E id \in ConnIds : HbPong(id)
    \/ \E id \in ConnIds : HbPingTimeout(id)
    \/ \E id \in ConnIds : HbCloseInactive(id)
    \/ \E id \in ConnIds : ClientDisconnect(id)
    \/ Tick

Spec == Init /\ [][Next]_vars

(***************************************************************************)
(* A DroneSimulator driven directly (main.py)                              *)
(***************************************************************************)
\* update_telemetry ended as r
Returned(user_input, r) ==
    /\ drone' = r.drone
    /\ result' = [op |-> "update_telemetry", outcome |-> r.outcome, error |-> r.error,
                  input |-> user_input, checked |-> r.checked]

\* a call of update_telemetry; an engine that has crashed is only probed
CallUpdateTelemetry(user_input) ==
    /\ steps < MaxSteps \/ drone.crashed
    /\ drone.crashed => user_input \in ProbeCommands
    /\ \E rng \in DrawsFor(drone, user_input) :
           Returned(user_input, update_telemetry(drone, user_input, rng))
    /\ steps' = IF drone.crashed THEN steps ELSE steps + 1
    /\ UNCHANGED svars

CallGetMetrics ==
    /\ result.op # "get_metrics"
    /\ result' = [result EXCEPT !.op = "get_metrics"]
    /\ UNCHANGED <<drone, steps>>
    /\ UNCHANGED svars

CallReset ==
    /\ drone.crashed
    /\ steps < MaxSteps
    /\ drone' = reset(drone)
    /\ result' = [result EXCEPT !.op = "reset"]
    /\ UNCHANGED steps
    /\ UNCHANGED svars

EngineNext ==
    \/ \E user_input \in Commands : CallUpdateTelemetry(user_input)
    \/ CallGetMetrics
    \/ CallReset

EngineSpec == Init /\ [][EngineNext]_vars

(***************************************************************************)
(* One command repeated on a fresh engine                                  *)
(***************************************************************************)
RepeatedCommand == Cmd(5, 0, "fwd")

\* one more call of update_telemetry with the repeated command
RepeatCommand ==
    /\ steps < MaxRun
    /\ \E rng \in DrawsFor(drone, RepeatedCommand) :
           Returned(RepeatedCommand, update_telemetry(drone, RepeatedCommand, rng))
    /\ steps' = steps + 1
    /\ UNCHANGED svars

RepeatSpec == Init /\ [][RepeatCommand]_vars

(***************************************************************************)
(* An engine that hovers on the ground while the weather changes, and      *)
(* climbs by 10                                                            *)
(***************************************************************************)
HoverCommand == Cmd(0, 0, "fwd")
ClimbCommand == Cmd(0, 10, "fwd")

\* update_telemetry with the hover command on an engine that has not crashed
Hover ==
    /\ steps < MaxFlight
    /\ ~drone.crashed
    /\ \E rng \in DrawsFor(drone, HoverCommand) :
           Returned(HoverCommand, update_telemetry(drone, HoverCommand, rng))
    /\ steps' = steps + 1
    /\ UNCHANGED svars

\* update_telemetry with the climb command on an engine that has not crashed
Climb ==
    /\ steps < MaxFlight
    /\ ~drone.crashed
    /\ \E rng \in DrawsFor(drone, ClimbCommand) :
           Returned(ClimbCommand, update_telemetry(drone, ClimbCommand, rng))
    /\ steps' = steps + 1
    /\ UNCHANGED svars

ClimbNext == Hover \/ Climb

ClimbSpec == Init /\ [][ClimbNext]_vars

(***************************************************************************)
(* _check_drone_crash applied to telemetry at and around its thresholds    *)
(***************************************************************************)
\* the telemetry the crash check is given: positions, battery levels and
\* weather at, just inside and just outside the thresholds of the check
CheckedPositionsX == {0, max_x_position, -max_x_position, max_x_position + 1}
CheckedPositionsY == {0, 3, 4, 1000, 1001}
CheckedBatteries == {0, 1, BatteryFull}
CheckedWeather == {<<0, 0>>, <<61, 0>>, <<0, 91>>}
CheckedTelemetry ==
    {[initial_telemetry EXCEPT !.x_position = x, !.y_position = y, !.battery = b,
                               !.wind_speed = w[1], !.dust_level = w[2],
                               !.sensor_status = SensorStatus(w[1], w[2])] :
        x \in CheckedPositionsX, y \in CheckedPositionsY, b \in CheckedBatteries,
        w \in CheckedWeather}

ServerInit ==
    /\ connections = {}
    /\ drones = <<>>
    /\ metrics = <<>>
    /\ last_activity = <<>>
    /\ heartbeat_tasks = {}
    /\ ws = [id \in ConnIds |-> [state |-> "none", close_reason |-> NoMessage, sent |-> <<>>]]
    /\ handler = [id \in ConnIds |-> [pc |-> "idle", data |-> NoData, response |-> NoResponse]]
    /\ hb = [id \in ConnIds |-> "none"]
    /\ hb_since = [id \in ConnIds |-> 0]
    /\ now = 0

\* an engine about to run its crash check on the telemetry t of a step
CrashCheckInit ==
    /\ ServerInit
    /\ \E t \in CheckedTelemetry : drone = [NewDrone EXCEPT !.telemetry = t]
    /\ result = NoResult
    /\ steps = 0

\* `self._check_drone_crash()` and, when it raises, the `except ValueError`
\* of update_telemetry
CheckCrash ==
    /\ steps = 0
    /\ LET chk == _check_drone_crash(drone.telemetry)
       IN  /\ drone' = IF chk.raised
                       THEN [drone EXCEPT !.telemetry = chk.telemetry, !.file = chk.telemetry,
                                          !.crashed = TRUE, !.crash_reason = chk.message]
                       ELSE drone
           /\ result' = [op |-> "_check_drone_crash",
                         outcome |-> IF chk.raised THEN "crashed" ELSE "success",
                         error |-> chk.message, input |-> NoResult.input,
                         checked |-> drone.telemetry]
    /\ steps' = 1
    /\ UNCHANGED svars

CrashCheckSpec == CrashCheckInit /\ [][CheckCrash]_vars

(***************************************************************************)
(* validate_drone_input applied to decoded JSON values                     *)
(***************************************************************************)
\* what json.loads can hand to the validation: a value that is a dictionary
\* or not, with any of the three keys, each value of some JSON type (a JSON
\* true or false arrives as a Python bool, here with the value 1 or 0)
InputKeySets == {{"speed", "altitude", "movement"}, {"speed", "altitude"},
                 {"altitude", "movement"}, {"speed", "movement"}, {}}
InputSpeeds ==
    {<<"int", -1>>, <<"int", 0>>, <<"int", 5>>, <<"int", 6>>, <<"bool", 1>>,
     <<"float", 2>>, <<"str", 0>>}
InputAltitudes == {<<"int", -7>>, <<"int", 0>>, <<"bool", 1>>, <<"float", 3>>, <<"str", 0>>}
InputMovements == {<<"str", "fwd">>, <<"str", "rev">>, <<"str", "up">>, <<"int", "fwd">>}
ValidatorInputs ==
    {[is_dict |-> isd, keys |-> k,
      speed_type |-> sp[1], speed |-> sp[2],
      altitude_type |-> al[1], altitude |-> al[2],
      movement_type |-> mv[1], movement |-> mv[2]] :
        isd \in BOOLEAN, k \in InputKeySets, sp \in InputSpeeds, al \in InputAltitudes,
        mv \in InputMovements}

\* DroneSimulator.validate_input on the input user_input
Validate(user_input) ==
    /\ steps = 0
    /\ result' = [op |-> "validate_input",
                  outcome |-> IF validate_drone_input(user_input) = "True"
                              THEN "valid" ELSE "invalid",
                  error |-> <<validate_drone_input(user_input)>>,
                  input |-> user_input, checked |-> drone.telemetry]
    /\ steps' = 1
    /\ UNCHANGED drone
    /\ UNCHANGED svars

ValidateNext == \E user_input \in ValidatorInputs : Validate(user_input)

ValidateSpec == Init /\ [][ValidateNext]_vars

(***************************************************************************)
(* Sessions whose clients answer every ping in time and send no command    *)
(***************************************************************************)
\* the clock advances while no heartbeat is waiting for a pong
IdleTick ==
    /\ \A id \in ConnIds : hb[id] # "pong"
    /\ Tick

IdleNext ==
    \/ \E id \in ConnIds : Connect(id)
    \/ \E id \in ConnIds : WelcomeSent(id)
    \/ \E id \in ConnIds : ConnectionLost(id)
    \/ \E id \in ConnIds : HbPing(id)
    \/ \E id \in ConnIds : HbPong(id)
    \/ \E id \in ConnIds : HbCloseInactive(id)
    \/ IdleTick

\* the event loop runs every task that is ready, and time passes
IdleFairness ==
    /\ \A id \in ConnIds : WF_vars(WelcomeSent(id)) /\ WF_vars(ConnectionLost(id))
    /\ \A id \in ConnIds : WF_vars(HbPing(id)) /\ WF_vars(HbPong(id))
    /\ \A id \in ConnIds : WF_vars(HbCloseInactive(id))
    /\ SF_vars(IdleTick)

IdleSpec == Init /\ [][IdleNext]_vars /\ IdleFairness

(***************************************************************************)
(* Sessions whose clients may stop answering pings                         *)
(***************************************************************************)
\* what the clients of these sessions send: broken JSON, or a descent below
\* the ground
PingMessages == {NoData, [json_ok |-> TRUE, data |-> Cmd(0, -5, "fwd")]}

PingNext ==
    \/ \E id \in ConnIds : Connect(id)
    \/ \E id \in ConnIds : WelcomeSent(id)
    \/ \E id \in ConnIds : ConnectionLost(id)
    \/ \E id \in ConnIds, msg \in PingMessages : Receive(id, msg)
    \/ \E id \in ConnIds : Sent(id)
    \/ \E id \in ConnIds : Closed(id)
    \/ \E id \in ConnIds : HbPing(id)
    \/ \E id \in ConnIds : HbPong(id)
    \/ \E id \in ConnIds : HbPingTimeout(id)
    \/ \E id \in ConnIds : HbCloseInactive(id)
    \/ \E id \in ConnIds : ClientDisconnect(id)
    \/ Tick

\* a handler whose socket has been closed is resumed by the event loop: its
\* pending send or receive ends with ConnectionClosed
PingFairness == \A id \in ConnIds : WF_vars(ConnectionLost(id))

PingSpec == Init /\ [][PingNext]_vars /\ PingFairness

(***************************************************************************)
(* A second DroneSimulator constructed on the file of the first            *)
(***************************************************************************)
\* DroneSimulator.__init__ on the telemetry file `file`
OpenDrone(file) ==
    [telemetry |-> LoadTelemetry(file).telemetry, file |-> LoadTelemetry(file).file,
     iteration_count |-> 0, total_distance |-> 0,
     crashed |-> FALSE, crash_reason |-> NoMessage]

\* the program is started again: DroneSimulator() on the file the engine
\* wrote; result.checked keeps the record the file held before
Reopen ==
    /\ result.op = "update_telemetry"
    /\ drone' = OpenDrone(drone.file)
    /\ result' = [result EXCEPT !.op = "__init__", !.outcome = "none",
                                !.error = NoMessage, !.checked = drone.file]
    /\ UNCHANGED steps
    /\ UNCHANGED svars

StoreNext ==
    \/ \E user_input \in Commands : CallUpdateTelemetry(user_input)
    \/ Reopen

StoreSpec == Init /\ [][StoreNext]_vars

(***************************************************************************)
(* An engine kept in the air for as long as its battery lasts              *)
(***************************************************************************)
\* hovering on the ground costs the minimum drain; the descent ends the run
EnduranceCommands == {Cmd(0, 0, "fwd"), Cmd(0, 0, "rev"), Cmd(0, -5, "fwd")}

\* one more call of update_telemetry on an engine that has not crashed
Endure ==
    /\ steps < MaxEndurance
    /\ ~drone.crashed
    /\ \E user_input \in EnduranceCommands :
           \E rng \in DrawsFor(drone, user_input) \cap ServerRng :
               Returned(user_input, update_telemetry(drone, user_input, rng))
    /\ steps' = steps + 1
    /\ UNCHANGED svars

EnduranceSpec == Init /\ [][Endure]_vars

(***************************************************************************)
(* Properties of the engine (EngineSpec)                                   *)
(***************************************************************************)
\* C1: on an engine that has crashed, every update_telemetry call, with any
\* command, raises the already-crashed error and leaves telemetry,
\* crash_reason, iteration_count, total_distance and the stored record as
\* they were.
C1_CrashedEngineFrozen ==
    [][(drone.crashed /\ result'.op = "update_telemetry")
          => (drone' = drone /\ result'.outcome = "rejected")]_vars

\* a crashed engine, away from the default telemetry, has just rejected an
\* (invalid) command
C1_Witness ==
    /\ drone.crashed
    /\ drone.telemetry # initial_telemetry
    /\ result.op = "update_telemetry"
    /\ result.outcome = "rejected"
    /\ result.input.speed = 6

\* the crash conditions in the order of their priority: the cause to report
\* for telemetry t, NoMessage when t violates none
FirstViolated(t) ==
    IF t.battery <= 0 THEN BatteryDepletion
    ELSE IF t.y_position < 0 THEN NegativeAltitude
    ELSE IF Abs(t.x_position) > 100000 THEN ExceededMaxX
    ELSE IF t.sensor_status = "RED" /\ t.y_position > 3 THEN UnsafeRed
    ELSE IF t.sensor_status = "YELLOW" /\ t.y_position > 1000 THEN UnsafeYellow
    ELSE NoMessage

\* C2: a step that ends in a crash reports the first crash condition its
\* post-update state violates, in the order battery, negative altitude, x
\* range, RED altitude, YELLOW altitude; a step ending with battery <= 0 and
\* y_position < 0 reports battery depletion.
C2_CrashCausePriority ==
    (result.outcome = "crashed" /\ FirstViolated(result.checked) # NoMessage)
        => /\ result.error = FirstViolated(result.checked)
           /\ drone.crashed => drone.crash_reason = FirstViolated(result.checked)

\* the five conditions of a safe post-update state
Safe(t) ==
    /\ t.battery > 0
    /\ t.y_position >= 0
    /\ Abs(t.x_position) <= 100000
    /\ ~(t.sensor_status = "RED" /\ t.y_position > 3)
    /\ ~(t.sensor_status = "YELLOW" /\ t.y_position > 1000)

C6_TelemetryRanges ==
    /\ 0 <= drone.telemetry.wind_speed /\ drone.telemetry.wind_speed <= 100
    /\ 0 <= drone.telemetry.dust_level /\ drone.telemetry.dust_level <= 100
    /\ \A i \in 1 .. 3 : /\ -GyroOne <= drone.telemetry.gyroscope[i]
                         /\ drone.telemetry.gyroscope[i] <= GyroOne
    /\ drone.telemetry.sensor_status \in {"GREEN", "YELLOW", "RED"}

\* the wind at its upper clamp and a gyroscope component at its lower clamp
C6_Witness ==
    /\ drone.telemetry.wind_speed = 100
    /\ drone.telemetry.gyroscope[1] = -GyroOne
    /\ drone.telemetry.sensor_status = "RED"

\* C7: over the update_telemetry calls battery stays in [0, 100] and never
\* increases; the step on which it reaches 0 reports a battery-depletion
\* crash, and from 0 it never changes.
C7_BatteryMonotone ==
    [][result'.op = "update_telemetry"
          => /\ 0 <= drone'.telemetry.battery
             /\ drone'.telemetry.battery <= drone.telemetry.battery
             /\ drone.telemetry.battery <= BatteryFull
             /\ (drone.telemetry.battery > 0 /\ drone'.telemetry.battery = 0)
                   => (result'.outcome = "crashed" /\ result'.error = BatteryDepletion)]_vars

(***************************************************************************)
(* Properties of the sessions (Spec)                                       *)
(***************************************************************************)
\* a command that passes validation: all three keys, speed an integer in
\* 0..5, altitude an integer, movement 'fwd' or 'rev'
IsValidCommand(c) ==
    /\ c.is_dict
    /\ {"speed", "altitude", "movement"} \subseteq c.keys
    /\ c.speed_type = "int" /\ 0 <= c.speed /\ c.speed <= 5
    /\ c.altitude_type = "int"
    /\ c.movement_type = "str" /\ c.movement \in {"fwd", "rev"}

\* the handler of id holds a decoded command that fails validation
HoldsInvalidCommand(id) ==
    /\ handler[id].data.json_ok
    /\ ~IsValidCommand(handler[id].data.data)

C4_InvalidCommandIsAnError ==
    \A id \in ConnIds :
        (/\ handler[id].pc \in {"send", "close"}
         /\ HoldsInvalidCommand(id)
         /\ id \in DOMAIN drones
         /\ ~drones[id].crashed)
        => /\ handler[id].response.status = "error"
           /\ handler[id].pc # "close"

\* C8: the iterations of a response's metrics are the session's iterations
\* before the command plus 1 when the command succeeded with speed != 0 and
\* altitude != 0, and plus 0 for every other command.
C8_IterationsCounting ==
    [][\A id \in ConnIds :
          (/\ handler[id].pc = "recv"
           /\ handler'[id].pc = "send"
           /\ handler'[id].data.json_ok
           /\ id \in DOMAIN metrics)
          => /\ "metrics" \in DOMAIN handler'[id].response
             /\ handler'[id].response.metrics.iterations =
                    metrics[id].iterations +
                    (IF /\ handler'[id].response.status = "success"
                        /\ handler'[id].data.data.speed # 0
                        /\ handler'[id].data.data.altitude # 0
                     THEN 1 ELSE 0)
             /\ metrics'[id].iterations = handler'[id].response.metrics.iterations]_vars

\* a successful command with altitude = 0 that moved the drone back and left
\* the iterations at 1
C8_Witness ==
    \E id \in ConnIds :
        /\ handler[id].pc = "send"
        /\ handler[id].response.status = "success"
        /\ handler[id].data.data.altitude = 0
        /\ handler[id].data.data.speed # 0
        /\ handler[id].response.metrics.iterations = 1
        /\ id \in DOMAIN drones
        /\ drones[id].telemetry.x_position = 0
        /\ drones[id].telemetry.battery < BatteryFull

\* the causes an engine crash is reported with
CrashCauses ==
    {BatteryDepletion, NegativeAltitude, ExceededMaxX, UnsafeRed, UnsafeYellow,
     ExcessiveTiltCrash}

\* m reports a crash of the engine
IsCrashReport(m) ==
    /\ Get(m, "status", "") = "crashed"
    /\ Get(m, "message", NoMessage) \in CrashCauses

\* C9: a session is sent at most one crash report, with the cause, the final
\* telemetry and the final metrics, and nothing after it: the crash report is
\* the last message of the session.
C9_CrashReportIsLast ==
    \A id \in ConnIds :
        \A i \in 1 .. Len(ws[id].sent) :
            IsCrashReport(ws[id].sent[i])
                => /\ i = Len(ws[id].sent)
                   /\ {"message", "final_telemetry", "metrics"} \subseteq DOMAIN ws[id].sent[i]

\* C10: when the handler of a session whose engine crashed has finished and
\* the client did not hang up first, the crash report was sent, the socket
\* was closed with reason 'Drone crashed: <message>', and the id is in none
\* of the five dictionaries.
C10_CrashTeardown ==
    \A id \in ConnIds :
        (/\ handler[id].pc = "done"
         /\ IsCrashReport(handler[id].response)
         /\ ws[id].close_reason # <<"client">>)
        => /\ ws[id].state = "closed"
           /\ ws[id].close_reason = <<"Drone crashed: ">> \o handler[id].response.message
           /\ \E i \in 1 .. Len(ws[id].sent) : ws[id].sent[i] = handler[id].response
           /\ id \notin connections /\ id \notin DOMAIN drones
           /\ id \notin DOMAIN metrics /\ id \notin DOMAIN last_activity
           /\ id \notin heartbeat_tasks

\* id is in none of the five dictionaries of the registry reg
Absent(reg, id) ==
    /\ id \notin reg.connections /\ id \notin DOMAIN reg.drones
    /\ id \notin DOMAIN reg.metrics /\ id \notin DOMAIN reg.last_activity
    /\ id \notin reg.heartbeat_tasks

\* the registries reg and u hold the same for session j
SameSession(reg, u, j) ==
    /\ (j \in reg.connections) <=> (j \in u.connections)
    /\ (j \in reg.heartbeat_tasks) <=> (j \in u.heartbeat_tasks)
    /\ DOMAIN reg.drones \cap {j} = DOMAIN u.drones \cap {j}
    /\ DOMAIN reg.metrics \cap {j} = DOMAIN u.metrics \cap {j}
    /\ DOMAIN reg.last_activity \cap {j} = DOMAIN u.last_activity \cap {j}
    /\ j \in DOMAIN reg.drones => u.drones[j] = reg.drones[j]
    /\ j \in DOMAIN reg.metrics => u.metrics[j] = reg.metrics[j]
    /\ j \in DOMAIN reg.last_activity => u.last_activity[j] = reg.last_activity[j]
    /\ u.hb[j] = reg.hb[j]

\* u is the registry reg after unregister(id)
UnregisterContract(reg, id, u) ==
    /\ Absent(u, id)
    /\ id \in reg.heartbeat_tasks => u.hb[id] \in {"cancelled", "done"}
    /\ \A j \in ConnIds \ {id} : SameSession(reg, u, j)
    /\ unregister(u, id) = u
    /\ Absent(reg, id) => u = reg

\* C11: in every state of the server, unregister(id) leaves id in none of the
\* five dictionaries with its heartbeat task cancelled (or done), leaves every
\* other session as it was, and a second call, or a call for an id that is
\* not registered, changes nothing.
C11_UnregisterIdempotent ==
    \A id \in ConnIds : UnregisterContract(Reg, id, unregister(Reg, id))

\* the handler of session 1 has unregistered it, cancelling its heartbeat,
\* while session 2 is registered with a heartbeat and a drone that has flown
C11_Witness ==
    /\ handler[1].pc = "done" /\ hb[1] = "cancelled" /\ Absent(Reg, 1)
    /\ 2 \in connections /\ 2 \in heartbeat_tasks
    /\ 2 \in DOMAIN drones /\ drones[2].telemetry.x_position # 0

\* the reasons the heartbeat closes a socket with
HeartbeatReasons == {<<"Ping timeout">>, <<"Inactivity timeout">>}

\* the heartbeat of id has decided to close the session: the inactivity
\* notice is on its way, or the socket is closed with one of its reasons
HeartbeatDecided(id) ==
    \/ hb[id] = "notice"
    \/ ws[id].close_reason \in HeartbeatReasons

\* a crash report has been sent on session id
CrashReported(id) ==
    \E i \in 1 .. Len(ws[id].sent) : IsCrashReport(ws[id].sent[i])

\* C12: heartbeat termination and crash termination exclude each other: once
\* the heartbeat has decided to close a session no command is applied to its
\* engine and no crash report is sent, and once a crash report has been sent
\* the heartbeat sends no inactivity notice and does not close the socket
\* with its own reason.
C12_TerminationsExclusive ==
    [][\A id \in ConnIds :
          /\ HeartbeatDecided(id)
                => /\ id \in DOMAIN drones' /\ id \in DOMAIN drones
                         => drones'[id] = drones[id]
                   /\ ws'[id].sent # ws[id].sent
                         => ~IsCrashReport(ws'[id].sent[Len(ws'[id].sent)])
          /\ CrashReported(id)
                => /\ ws'[id].sent # ws[id].sent
                         => ws'[id].sent[Len(ws'[id].sent)] # InactivityMsg
                   /\ ws'[id].close_reason # ws[id].close_reason
                         => ws'[id].close_reason \notin HeartbeatReasons]_vars

\* C13: once the handler of a session has unregistered it, the heartbeat
\* task of the session is cancelled or finished (or was never created), its
\* entry is gone from heartbeat_tasks, and it pings, sends and closes no more.
C13_HeartbeatStopsAfterUnregister ==
    [][\A id \in ConnIds :
          handler[id].pc = "done"
             => /\ id \notin heartbeat_tasks
                /\ hb[id] \in {"none", "cancelled", "done"}
                /\ hb'[id] = hb[id] /\ hb_since'[id] = hb_since[id]
                /\ ws'[id].sent = ws[id].sent
                /\ ws'[id].close_reason \in HeartbeatReasons
                      => ws'[id].close_reason = ws[id].close_reason]_vars

\* a handler has left through `except Exception`: the session is unregistered
\* and its heartbeat cancelled while the socket is still open
C13_Witness ==
    \E id \in ConnIds :
        /\ handler[id].pc = "done"
        /\ hb[id] = "cancelled"
        /\ ws[id].state = "open"

\* session id has been closed for inactivity and torn down
InactivityClosed(id) ==
    /\ handler[id].pc = "done"
    /\ ws[id].sent[Len(ws[id].sent)] = InactivityMsg
    /\ ws[id].state = "closed"
    /\ ws[id].close_reason = <<"Inactivity timeout">>
    /\ Absent(Reg, id)

\* C14: a registered session whose client answers the pings and sends no
\* command (and whose inactivity threshold lies within the modelled time) is
\* eventually sent the inactivity notice, closed with reason 'Inactivity
\* timeout' and removed from the registry; its engine is never marked crashed.
C14_IdleSessionTimesOut ==
    /\ \A id \in ConnIds :
          (id \in connections /\ id \in DOMAIN last_activity
              /\ last_activity[id] + INACTIVITY_TIMEOUT < MaxTime)
             ~> InactivityClosed(id)
    /\ [](\A id \in DOMAIN drones : ~drones[id].crashed)

\* both sessions have been closed for inactivity
C14_Witness ==
    \A id \in ConnIds : InactivityClosed(id) /\ hb[id] = "done"

(***************************************************************************)
(* C15                                                                     *)
(***************************************************************************)
\* the heartbeat of id gives up on a ping whose pong is overdue, the socket
\* being open
PingTimesOut(id) ==
    /\ hb[id] = "pong" /\ hb'[id] = "done"
    /\ now - hb_since[id] >= PING_TIMEOUT
    /\ ws[id].state = "open"

PingTimeoutClosed(id) == ws[id].state = "closed" /\ ws[id].close_reason = <<"Ping timeout">>

\* C15: a heartbeat whose ping is not answered within the timeout closes the
\* socket with the reason 'Ping timeout' and ends (it never pings again); the
\* session is then removed from the registry by its connection handler, and
\* it is removed once: only by the step that ends the handler, and never
\* registered again.
C15_PingTimeoutTeardown ==
    /\ [][\A id \in ConnIds :
             /\ PingTimesOut(id) => PingTimeoutClosed(id)'
             /\ hb[id] = "done" => hb'[id] = "done"
             /\ (id \in connections /\ id \notin connections')
                   => handler[id].pc # "done" /\ handler'[id].pc = "done"
             /\ handler[id].pc = "done" => Absent(Reg, id)']_vars
    /\ \A id \in ConnIds :
          PingTimeoutClosed(id) ~> (handler[id].pc = "done" /\ Absent(Reg, id))

\* a session closed by a ping timeout has been unregistered by its handler
C15_Witness ==
    \E id \in ConnIds :
        /\ PingTimeoutClosed(id)
        /\ hb[id] = "done"
        /\ handler[id].pc = "done"
        /\ Absent(Reg, id)

(***************************************************************************)
(* C16                                                                     *)
(***************************************************************************)
\* C16: handle_drone_command for a connection id that is not, or no longer,
\* registered returns status 'error' (no crash report, no exception) and
\* leaves every dictionary as it was: nothing is created for the id and no
\* other session is touched.
C16_UnknownIdIsAnError ==
    \A id \in ConnIds :
        id \notin connections
            => \A data \in ServerCommands, rng \in ServerRng \cup {NoRng} :
                   LET r == handle_drone_command(Reg, id, data, rng, now)
                   IN  /\ r.response.status = "error"
                       /\ ~r.raised
                       /\ ~IsCrashReport(r.response)
                       /\ r.reg = Reg
                       /\ Absent(r.reg, id)

\* one session has been unregistered while another one, whose drone has
\* flown, is still registered
C16_Witness ==
    \E id, j \in ConnIds :
        /\ handler[id].pc = "done" /\ id \notin connections
        /\ j \in connections /\ j \in DOMAIN drones
        /\ drones[j].telemetry.x_position # 0
        /\ handle_drone_command(Reg, id, Cmd(5, 4, "fwd"), NoRng, now).response.status = "error"

(***************************************************************************)
(* C17                                                                     *)
(***************************************************************************)
\* C17: handle_drone_command for a registered session whose engine has
\* already crashed leaves the engine as it is and answers with an error that
\* is not a crash report: its status is not 'crashed'.
C17_CrashedSessionIsAnError ==
    \A id \in ConnIds :
        (id \in connections /\ id \in DOMAIN drones /\ id \in DOMAIN metrics
            /\ drones[id].crashed)
            => \A data \in ServerCommands :
                   LET r == handle_drone_command(Reg, id, data, NoRng, now)
                   IN  /\ r.reg.drones[id] = drones[id]
                       /\ ~r.raised
                       /\ r.response.status # "crashed"

(***************************************************************************)
(* C18                                                                     *)
(***************************************************************************)
\* the server's dictionaries with the one session 1 that holds the engine d
SessionOf(d) ==
    [register([connections |-> {}, drones |-> <<>>, metrics |-> <<>>,
               last_activity |-> <<>>, heartbeat_tasks |-> {},
               hb |-> [id \in ConnIds |-> "none"]], 1, 0)
        EXCEPT !.drones[1] = d]

\* C18: from the default telemetry, with {speed 5, altitude 0, movement fwd}
\* repeated, commands 1 to 22 succeed whatever the environment draws, command
\* 23 crashes the engine with the battery depletion message, and the server
\* answers command 23, and no earlier one, with a crash report naming
\* battery depletion.
C18_BatteryRunsOutOnCommand23 ==
    /\ (steps \in 1 .. 22)
          => /\ result.outcome = "success" /\ ~drone.crashed
             /\ drone.telemetry.battery = BatteryFull - steps * 4500
    /\ steps = 23
          => /\ result.outcome = "crashed" /\ result.error = BatteryDepletion
             /\ drone.crashed /\ drone.crash_reason = BatteryDepletion
             /\ drone.telemetry.battery = 0
    /\ steps < 23
          => \A rng \in DrawsFor(drone, RepeatedCommand) :
                 LET r == handle_drone_command(SessionOf(drone), 1, RepeatedCommand, rng, 0)
                 IN  IF steps = 22
                     THEN /\ r.response.status = "crashed"
                          /\ r.response.message = BatteryDepletion
                          /\ r.response.connection_terminated
                     ELSE r.response.status = "success"

\* the 23rd command has been applied and the engine has crashed
C18_Witness ==
    /\ steps = 23
    /\ drone.crashed
    /\ result.input = RepeatedCommand
    /\ result.error = BatteryDepletion

(***************************************************************************)
(* C19                                                                     *)
(***************************************************************************)
\* the command takes the engine d below the ground and the drain leaves
\* some battery
SinksWithBattery(d, user_input) ==
    LET t1 == _update_position(d.telemetry, user_input)
    IN  /\ t1.y_position < 0
        /\ ~ExpOverflows(t1)
        /\ \A rng \in Rng : _update_battery(t1, user_input, rng).battery > 0

\* C19: a valid command that takes y_position below 0 while the battery
\* stays above 0 after the drain crashes the engine with the negative
\* altitude message, whatever the environment draws, and leaves y_position = 0
\* in the telemetry, which is what the server's crash report encodes.
C19_NegativeAltitudeCrash ==
    ~drone.crashed
        => \A user_input \in ValidCommands :
               SinksWithBattery(drone, user_input)
                   => \A rng \in Rng :
                          LET r == update_telemetry(drone, user_input, rng)
                              s == handle_drone_command(SessionOf(drone), 1, user_input, rng, 0)
                          IN  /\ r.outcome = "crashed" /\ r.error = NegativeAltitude
                              /\ r.drone.crashed /\ r.drone.crash_reason = NegativeAltitude
                              /\ r.drone.telemetry.y_position = 0
                              /\ r.checked.y_position < 0
                              /\ s.response.status = "crashed"
                              /\ s.response.message = NegativeAltitude
                              /\ s.response.final_telemetry = EncodeTelemetry(r.drone.telemetry)

\* a descent of 150 from the ground has crashed an engine whose battery was
\* not empty after the drain
C19_Witness ==
    /\ result.op = "update_telemetry"
    /\ result.input.altitude = -150
    /\ result.outcome = "crashed" /\ result.error = NegativeAltitude
    /\ result.checked.y_position < 0 /\ result.checked.battery > 0
    /\ drone.crashed /\ drone.telemetry.y_position = 0

(***************************************************************************)
(* C20                                                                     *)
(***************************************************************************)
\* the step applies the climb by 10 to an engine on the ground whose
\* sensor_status is RED
RedClimb ==
    /\ ~drone.crashed
    /\ drone.telemetry.sensor_status = "RED"
    /\ drone.telemetry.y_position = 0
    /\ steps' = steps + 1
    /\ result'.input = ClimbCommand

\* C20: with sensor_status RED at altitude 0, the command {speed 0,
\* altitude 10, movement fwd} ends in a crash with the 'unsafe altitude with
\* RED sensor status' cause.
C20_RedClimbCrashes ==
    [][RedClimb => result'.outcome = "crashed" /\ result'.error = UnsafeRed]_vars

\* C20, amended: the command ends in that crash when wind or dust is still
\* above 90 after the environment update of the same step (and the drain
\* has left some battery); when the weather has calmed in that step the
\* command succeeds and the engine is at altitude 10.
C20_RedAfterUpdateCrashes ==
    [][RedClimb
          => LET t == result'.checked
             IN  t.battery > 0
                    => IF t.wind_speed > 90 \/ t.dust_level > 90
                       THEN /\ result'.outcome = "crashed" /\ result'.error = UnsafeRed
                            /\ drone'.crashed /\ drone'.crash_reason = UnsafeRed
                       ELSE /\ result'.outcome = "success" /\ ~drone'.crashed
                            /\ drone'.telemetry.y_position = 10]_vars

\* the third command was the climb and it crashed on the RED rule; dust 90
\* is the 100 of the state before less the calm step's 10, so the status was
\* RED before the command too
C20_Witness ==
    /\ steps = 3
    /\ result.input = ClimbCommand
    /\ result.outcome = "crashed" /\ result.error = UnsafeRed
    /\ drone.telemetry.y_position = 10
    /\ drone.telemetry.dust_level = 90 /\ drone.telemetry.wind_speed = 100

(***************************************************************************)
(* C21                                                                     *)
(***************************************************************************)
\* the crash check has run on the telemetry result.checked
CrashChecked == steps = 1 /\ result.op = "_check_drone_crash"

\* the three boundaries above which the check raises are themselves safe
UpperBoundariesSafe ==
    LET t == result.checked
    IN  /\ (t.sensor_status = "RED" /\ t.y_position = 3) => result.error # UnsafeRed
        /\ (t.sensor_status = "YELLOW" /\ t.y_position = 1000) => result.error # UnsafeYellow
        /\ Abs(t.x_position) = max_x_position => result.error # ExceededMaxX

StatusMatchesWeather(t) ==
    /\ t.sensor_status = "RED" <=> (t.wind_speed > 90 \/ t.dust_level > 90)
    /\ t.sensor_status = "YELLOW"
          <=> (~(t.wind_speed > 90 \/ t.dust_level > 90)
               /\ (t.wind_speed > 60 \/ t.dust_level > 60))
    /\ t.sensor_status = "GREEN" <=> (t.wind_speed <= 60 /\ t.dust_level <= 60)

\* C22: in every state reachable from the default telemetry (after
\* successful, invalid and crashing steps, excessive-tilt crashes included)
\* sensor_status is the classification of the stored wind_speed and
\* dust_level: RED if either exceeds 90, else YELLOW if either exceeds 60,
\* else GREEN.
C22_StatusIsClassification ==
    /\ StatusMatchesWeather(drone.telemetry)
    /\ StatusMatchesWeather(drone.file)

\* an engine whose status had left GREEN has crashed for excessive tilt
C22_Witness ==
    /\ drone.crashed /\ drone.crash_reason = ExcessiveTiltCrash
    /\ drone.telemetry.sensor_status # "GREEN"
    /\ drone.telemetry.wind_speed > 60

(***************************************************************************)
(* C23                                                                     *)
(***************************************************************************)
\* C23: after every update_telemetry call that returns or ends in a crash
\* the persisted record equals the engine's telemetry (the frozen final
\* state for a crash), and after a call rejected as invalid or as
\* already-crashed the persisted record equals the unchanged telemetry.
C23_PersistedIsCurrent ==
    (result.op = "update_telemetry"
        /\ result.outcome \in {"success", "crashed", "invalid", "rejected"})
        => drone.file = drone.telemetry

(***************************************************************************)
(* C24                                                                     *)
(***************************************************************************)
\* C24: validate_drone_input returns True exactly for a mapping that holds
\* the keys speed, altitude and movement with speed an integer in 0..5,
\* altitude an integer of any sign and movement 'fwd' or 'rev'; every other
\* input gets an error description.
C24_ValidExactlyWhenWellFormed ==
    result.op = "validate_input"
        => /\ result.error = <<"True">> <=> IsValidCommand(result.input)
           /\ result.outcome = "valid" <=> IsValidCommand(result.input)

(***************************************************************************)
(* C25                                                                     *)
(***************************************************************************)
\* the responses to commands among the messages sent to session id
CommandResponses(id) ==
    {i \in 1 .. Len(ws[id].sent) : ws[id].sent[i].status \in {"success", "crashed"}}

\* the step applies a command to the engine of the registered session id
CommandApplied(id) ==
    /\ id \in DOMAIN drones /\ id \in DOMAIN metrics
    /\ id \in DOMAIN drones' /\ id \in DOMAIN metrics'
    /\ \/ drones'[id] # drones[id]
       \/ metrics'[id] # metrics[id]

ValidStep ==
    /\ ~drone.crashed
    /\ result'.op = "update_telemetry"
    /\ steps' = steps + 1
    /\ validate_drone_input(result'.input) = "True"

\* C26: for a valid command on an engine that has not crashed, the position
\* update sets x_position to old x + speed for 'fwd' and old x - speed for
\* 'rev', and y_position to old y + altitude; on a successful step these are
\* the returned positions, and |new_x - old_x| is the command's speed.
C26_PositionUpdate ==
    [][ValidStep
          => LET c == result'.input
                 old == drone.telemetry
                 t == result'.checked
             IN  /\ c.movement = "fwd" => t.x_position = old.x_position + c.speed
                 /\ c.movement = "rev" => t.x_position = old.x_position - c.speed
                 /\ t.y_position = old.y_position + c.altitude
                 /\ result'.outcome = "success"
                       => /\ drone'.telemetry.x_position = t.x_position
                          /\ drone'.telemetry.y_position = t.y_position
                          /\ Abs(drone'.telemetry.x_position - old.x_position) = c.speed]_vars

\* a successful step back and up: x went from 0 to -5, y to 4
C26_Witness ==
    /\ result.op = "update_telemetry" /\ result.outcome = "success"
    /\ result.input.movement = "rev" /\ result.input.speed = 5
    /\ result.input.altitude = 4
    /\ steps = 1
    /\ drone.telemetry.x_position = -5 /\ drone.telemetry.y_position = 4

(***************************************************************************)
(* C27                                                                     *)
(***************************************************************************)
\* what the server holds for session id: its membership in the five
\* dictionaries, its engine, its metrics and its last activity
SessionState(reg, id) ==
    [registered |-> id \in reg.connections,
     has_heartbeat |-> id \in reg.heartbeat_tasks,
     drone |-> IF id \in DOMAIN reg.drones THEN <<reg.drones[id]>> ELSE <<>>,
     metrics |-> IF id \in DOMAIN reg.metrics THEN <<reg.metrics[id]>> ELSE <<>>,
     last_activity |-> IF id \in DOMAIN reg.last_activity
                       THEN <<reg.last_activity[id]>> ELSE <<>>]

\* no task of session id (handler or heartbeat) moves in the step, and
\* nothing happens on its socket
SessionIdle(id) ==
    /\ handler'[id] = handler[id]
    /\ hb'[id] = hb[id]
    /\ ws'[id] = ws[id]

\* C27: sessions are isolated: whenever the engine, the crashed flag, the
\* metrics, the last activity or the registry membership of a session B
\* changes, the step is one of B's own connection handler and no task of
\* any other session takes part in it; so a command, a crash, a heartbeat
\* close or an unregister of a session A never changes anything of B.
C27_SessionsIsolated ==
    [][\A b \in ConnIds :
          SessionState(Reg, b)' # SessionState(Reg, b)
             => /\ handler'[b] # handler[b]
                /\ \A a \in ConnIds \ {b} : SessionIdle(a)]_vars

\* one session has crashed and has been unregistered while the other one,
\* whose drone has flown, is registered with its heartbeat running
C27_Witness ==
    \E a, b \in ConnIds :
        /\ a # b
        /\ handler[a].pc = "done" /\ a \notin connections
        /\ handler[a].response.status = "crashed"
        /\ b \in connections /\ b \in DOMAIN drones
        /\ drones[b].telemetry.x_position # 0 /\ ~drones[b].crashed
        /\ hb[b] \in {"pong", "sleep"}

(***************************************************************************)
(* C28                                                                     *)
(***************************************************************************)
\* C28: on every successful step the distance |new_x - old_x| is added to
\* the session's total_distance: the total_distance of the response is the
\* session's total_distance before the command plus the distance of the
\* step (so that it sums the distances of all successful steps).
C28_DistanceAccumulates ==
    [][\A id \in ConnIds :
          (/\ handler[id].pc = "recv"
           /\ handler'[id].pc = "send"
           /\ handler'[id].data.json_ok
           /\ id \in DOMAIN metrics /\ id \in DOMAIN drones
           /\ handler'[id].response.status = "success")
          => /\ handler'[id].response.metrics.total_distance =
                    metrics[id].total_distance
                    + Abs(drones'[id].telemetry.x_position - drones[id].telemetry.x_position)
             /\ metrics'[id].total_distance = handler'[id].response.metrics.total_distance]_vars

(***************************************************************************)
(* C29                                                                     *)
(***************************************************************************)
\* C29: the engine's own iteration counter, as get_metrics returns it,
\* counts the successful steps whose command has speed != 0 and
\* altitude != 0, and so equals the iterations the server keeps for the same
\* session.
C29_EngineCountsLikeServer ==
    \A id \in DOMAIN drones \cap DOMAIN metrics :
        get_metrics(drones[id]).iterations = metrics[id].iterations

\* C30: the crashed state is terminal: once the engine has crashed, no public
\* operation (update_telemetry, get_metrics, reset) changes the telemetry or
\* sets crashed back to false.
C30_CrashIsTerminal ==
    [][drone.crashed
          => (drone'.crashed /\ drone'.telemetry = drone.telemetry)]_vars

\* the tilt, in degrees, that the movement of a command causes by itself:
\* (speed / 5.0) * 20.0 along x for "fwd" and "rev"
MovementTiltDegrees(user_input) ==
    IF user_input.movement \in {"fwd", "rev"} THEN user_input.speed * 4 ELSE 0

\* C31: an "excessive tilt and loss of stability" crash is raised only on a
\* step whose command causes, by its movement alone, a tilt of more than 45
\* degrees; wind and noise alone never cause it, whatever the telemetry is
\* (a negative altitude after the position update included).
C31_TiltCrashOnlyFromMovement ==
    (/\ result.op = "update_telemetry"
     /\ result.outcome = "crashed"
     /\ result.error = ExcessiveTiltCrash)
        => MovementTiltDegrees(result.input) > CRITICAL_TILT_DEGREES

(***************************************************************************)
(* Properties of the telemetry store (StoreSpec)                           *)
(***************************************************************************)
\* C32: a TelemetryManager constructed on a file that an earlier
\* update_telemetry(t) wrote returns t from get_telemetry, and the stored
\* record is still t afterwards.
C32_StoreRoundTrip ==
    result.op = "__init__"
        => (drone.telemetry = result.checked /\ drone.file = result.checked)

(***************************************************************************)
(* Properties of the registry (Spec)                                       *)
(***************************************************************************)
\* C33: wherever tasks can interleave (the states of Spec are the awaits),
\* connections, drones, metrics and last_activity have the same key set and
\* the keys of heartbeat_tasks are among them; a reader that iterates
\* connections and indexes drones[id] and metrics[id] finds every key.
C33_RegistryKeySetsAgree ==
    /\ DOMAIN drones = connections
    /\ DOMAIN metrics = connections
    /\ DOMAIN last_activity = connections
    /\ heartbeat_tasks \subseteq connections

\* one session has been unregistered while another, registered with it, is
\* still there with its heartbeat running
C33_Witness ==
    /\ handler[1].pc = "done"
    /\ connections = {2}
    /\ heartbeat_tasks = {2}
    /\ metrics[2].commands_sent > 0

(***************************************************************************)
(* Properties of a long flight (EnduranceSpec)                             *)
(***************************************************************************)
\* C34: every accepted command drains at least 0.1 of the battery, so an
\* engine that starts at battery 100 completes at most 1000 successful
\* update_telemetry calls, whatever the commands and the environment are.
C34_AtMost1000Successes ==
    /\ (IF drone.crashed THEN steps - 1 ELSE steps) <= 1000
    /\ ~drone.crashed
          => /\ drone.telemetry.battery
                    <= BatteryFull - steps * minimum_drain + BatteryResidue
             /\ \A user_input \in ValidCommands :
                    drain_amount(_update_position(drone.telemetry, user_input), user_input)
                        >= minimum_drain

\* 1000 calls have succeeded and call 1001 has ended in battery depletion
C34_Witness ==
    /\ steps = 1001
    /\ drone.crashed
    /\ result.outcome = "crashed" /\ result.error = BatteryDepletion

(***************************************************************************)
(* Properties of the crash report (Spec)                                   *)
(***************************************************************************)
RECURSIVE MetricsBefore(_, _)
\* the metrics of the last success response among the first k messages sent,
\* zero when there is none
MetricsBefore(sent, k) ==
    IF k = 0 THEN [iterations |-> 0, total_distance |-> 0]
    ELSE IF sent[k].status = "success" THEN sent[k].metrics
    ELSE MetricsBefore(sent, k - 1)

\* C35: the crashing step adds nothing to the metrics: the iterations and
\* total_distance of a crash response are those of the session's last success
\* response, or 0 when there was none, even when the crashing command had
\* speed != 0 and altitude != 0 and moved x_position.
C35_CrashAddsNothing ==
    \A id \in ConnIds :
        \A k \in 1 .. Len(ws[id].sent) :
            ws[id].sent[k].status = "crashed"
                => ws[id].sent[k].metrics = MetricsBefore(ws[id].sent, k - 1)

\* a session whose first command succeeded and counted has crashed on a
\* second command with speed 5 and altitude 4, which moved x_position on
C35_Witness ==
    \E id \in ConnIds :
        /\ Len(ws[id].sent) = 3
        /\ ws[id].sent[2].status = "success"
        /\ ws[id].sent[2].metrics.iterations = 1
        /\ ws[id].sent[3].status = "crashed"
        /\ handler[id].data.data = Cmd(5, 4, "fwd")
        /\ ws[id].sent[3].final_telemetry # ws[id].sent[2].telemetry
        /\ ws[id].sent[3].metrics = [iterations |-> 1, total_distance |-> 5]

(***************************************************************************)
(* Properties of the altitude rules (ClimbSpec)                            *)
(***************************************************************************)
\* C36: the RED and YELLOW altitude rules of a step are decided by the
\* sensor_status that the same step derives from the wind and dust it has
\* just updated, not by the status the engine held before the command: a
\* step that gets as far as these rules crashes for RED exactly when the new
\* status is RED above altitude 3 (whatever the status was before, RED
\* included), and for YELLOW exactly when the new status is YELLOW above 1000.
C36_SameStepStatusDecides ==
    [][LET t == result'.checked
       IN  (/\ steps' = steps + 1
            /\ result'.error # ExcessiveTiltCrash
            /\ t.battery > 0 /\ t.y_position >= 0
            /\ Abs(t.x_position) <= max_x_position)
               => /\ t.sensor_status = SensorStatus(t.wind_speed, t.dust_level)
                  /\ (result'.outcome = "crashed" /\ result'.error = UnsafeRed)
                         <=> (t.sensor_status = "RED" /\ t.y_position > 3)
                  /\ (result'.outcome = "crashed" /\ result'.error = UnsafeYellow)
                         <=> (t.sensor_status = "YELLOW" /\ t.y_position > 1000)
                  /\ result'.outcome = "success"
                         <=> ~(\/ t.sensor_status = "RED" /\ t.y_position > 3
                               \/ t.sensor_status = "YELLOW" /\ t.y_position > 1000)]_vars

\* an engine that had climbed to altitude 10 has crashed on the RED rule
\* while hovering there; dust 70 is this step's storm on a dust of 0, so the
\* first step had no storm and left wind at most 15: the status before the
\* command was GREEN
C36_Witness ==
    /\ steps = 2
    /\ result.input = HoverCommand
    /\ result.outcome = "crashed" /\ result.error = UnsafeRed
    /\ drone.telemetry.y_position = 10
    /\ drone.telemetry.sensor_status = "RED"
    /\ drone.telemetry.wind_speed = 100 /\ drone.telemetry.dust_level = 70

(***************************************************************************)
(* Properties of a failing call (EngineSpec)                               *)
(***************************************************************************)
\* C37: update_telemetry fails atomically: a valid command on an engine that
\* has not crashed, whatever its altitude delta, either returns success or
\* raises with crashed = true, crash_reason set and the telemetry persisted;
\* it never fails with the position already changed and crashed still false.
C37_FailsAtomically ==
    (/\ result.op = "update_telemetry"
     /\ IsValidCommand(result.input)
     /\ result.outcome # "rejected")
        => \/ result.outcome = "success" /\ ~drone.crashed
           \/ /\ result.outcome = "crashed"
              /\ drone.crashed
              /\ drone.crash_reason # NoMessage
              /\ drone.file = drone.telemetry

(***************************************************************************)
(* Properties of the heartbeat task (Spec)                                 *)
(***************************************************************************)
\* the heartbeat task of id moves from one of its awaits to the next, or ends
HeartbeatMoves(id) ==
    /\ hb[id] \in {"start", "sleep", "pong", "notice"}
    /\ hb'[id] \in {"sleep", "pong", "notice", "done"}
    /\ <<hb[id], hb_since[id]>> # <<hb'[id], hb_since'[id]>>

\* the state of session id in the five dictionaries
Registered(id) ==
    <<id \in connections, id \in heartbeat_tasks,
      IF id \in DOMAIN drones THEN <<drones[id]>> ELSE <<>>,
      IF id \in DOMAIN metrics THEN <<metrics[id]>> ELSE <<>>,
      IF id \in DOMAIN last_activity THEN <<last_activity[id]>> ELSE <<>> >>

\* C38: the heartbeat task only reads the session state: no step of it
\* changes a session's telemetry, crashed flag, metrics or last_activity or
\* adds or removes a key of the registry maps; every such change is a step of
\* the session's own connection handler.
C38_HeartbeatReadsOnly ==
    [][/\ (\E id \in ConnIds : HeartbeatMoves(id))
              => UNCHANGED <<connections, drones, metrics, last_activity, heartbeat_tasks>>
       /\ \A id \in ConnIds :
              Registered(id)' # Registered(id) => handler'[id] # handler[id]]_vars

\* the heartbeat of a session that has flown a command has found it inactive
\* and sent the notice; the session is still registered, with what the
\* command left
C38_Witness ==
    \E id \in ConnIds :
        /\ hb[id] = "notice"
        /\ id \in connections /\ id \in heartbeat_tasks
        /\ metrics[id].commands_sent = 1
        /\ drones[id].telemetry.x_position = 5
        /\ last_activity[id] = 0

(***************************************************************************)
(* Properties of the message loop (Spec)                                   *)
(***************************************************************************)
\* the handler of id takes a message that is not valid JSON off the socket
TakesInvalidJson(id) ==
    /\ handler[id].pc = "recv"
    /\ handler'[id].pc = "send"
    /\ ~handler'[id].data.json_ok

\* the handler of id is over the send that answered such a message
AnsweredInvalidJson(id) ==
    /\ handler[id].pc = "send"
    /\ ~handler[id].data.json_ok
    /\ handler'[id] # handler[id]
    /\ ws[id].state = "open"

\* C39: a message that is not valid JSON is answered with status 'error' and
\* message 'Invalid JSON format'; it does not reach the engine, changes no
\* telemetry, metrics or last_activity (it is no activity for the inactivity
\* timeout), and the handler goes on to wait for the next message on the
\* open connection.
C39_InvalidJsonIsOnlyAnswered ==
    [][\A id \in ConnIds :
           /\ TakesInvalidJson(id)
                  => /\ handler'[id].response = InvalidJsonMsg
                     /\ ws'[id] = [ws[id] EXCEPT !.sent = Append(@, InvalidJsonMsg)]
                     /\ UNCHANGED <<connections, drones, metrics, last_activity,
                                    heartbeat_tasks>>
           /\ AnsweredInvalidJson(id)
                  => /\ handler'[id].pc = "recv"
                     /\ UNCHANGED <<connections, drones, metrics, last_activity,
                                    heartbeat_tasks, ws>>]_vars

\* a session has answered a message that is not valid JSON and then flown a
\* command on the same connection
C39_Witness ==
    \E id \in ConnIds :
        /\ Len(ws[id].sent) = 3
        /\ ws[id].sent[2] = InvalidJsonMsg
        /\ ws[id].sent[3].status = "success"
        /\ ws[id].state = "open"
        /\ metrics[id].commands_sent = 1
====
